---------------------------- MODULE Spec2Model ----------------------------
(***************************************************************************)
(* Chunked exchange protocol of dpos-ledger-api: DposLedger.exchange       *)
(* (src/src/library.ts), CommHandler.exchange (src/src/commHandler.ts)     *)
(* and decomposeResponse.  A Buffer is a sequence of bytes 0..255,         *)
(* 1-indexed here and 0-indexed in the source.                             *)
(***************************************************************************)
EXTENDS Integers, Sequences, FiniteSets, TLC

VARIABLES
  self,              \* the class of the instance: "DposLedger" or "CommHandler"
  transport,         \* this.transport: TRUE for a transport object, FALSE for null
  scrambleKeys,      \* the keys set on the transport with setScrambleKey, in order
  earlier,           \* how the instance's previous exchange ended ("none" before any)
  serialized,        \* the callers await each exchange before starting the next
  chunkSize,         \* this.chunkSize, fixed by the constructor
  progressListener,  \* CommHandler.progressListener: TRUE when one is set
  pc,                \* where the running exchange is suspended
  hexData,           \* the argument of exchange
  inputBuffer,       \* the normalised payload
  i,                 \* the chunk loop's index
  prevCRC,           \* CommHandler's previous-CRC tracker
  calls,             \* transport.send calls of the current exchange, in order
  replies,           \* what transport.send returned for each call, in order
  error,             \* the error exchange rejected with ("" while none)
  result,            \* the fields exchange resolved with
  notes,             \* progress notifications of the current exchange
  resBuf,            \* decomposeResponse: the buffer under decoding
  fieldsIn,          \* decomposeResponse: the field list the buffer encodes
  decoded,           \* decomposeResponse: its outcome
  ledgerAccount,     \* the LedgerAccount: its fields _account, _index, _coinIndex
  given,             \* the last value each setter of the account accepted
  derived,           \* what the last derivePath() returned or threw, and from
                     \* which given values
  op,                \* the facade operation under way, with its arguments
  opResult,          \* what the facade operation resolved or rejected with
  exchangesMade      \* calls of exchange made by the facade operation

\* the account and the facade operation around an exchange
facadeVars == <<ledgerAccount, given, derived, op, opResult, exchangesMade>>

\* the instance and its history
instFields == <<self, transport, scrambleKeys, earlier, serialized, chunkSize, progressListener>>

\* what no step of an exchange writes
instVars == <<instFields, facadeVars>>

vars == <<instVars, pc, hexData, inputBuffer, i, prevCRC,
          calls, replies, error, result, notes, resBuf, fieldsIn, decoded>>

decVars == <<resBuf, fieldsIn, decoded>>

----------------------------------------------------------------------------
(* Bounds of the model *)

\* longest enumerated payload
MaxLen == 4
\* largest enumerated chunk size below the constructor's limit
MaxChunk == 3
\* longest enumerated raw response buffer
MaxBufLen == 4
\* most fields in an enumerated field list
MaxFields == 2
\* longest field in an enumerated field list
MaxFieldLen == 2

----------------------------------------------------------------------------
(* Node's Buffer primitives, as the source uses them *)

\* largest value writeUInt8 accepts
UInt8Max == 255
\* largest value writeUInt16BE / writeUInt16LE accept
UInt16Max == 65535
\* largest value readInt8 returns
Int8Max == 127
\* largest value readInt16LE returns
Int16Max == 32767

Min(a, b) == IF a < b THEN a ELSE b

\* Math.ceil(a / b) for a >= 0, b >= 1
Ceil(a, b) == (a + b - 1) \div b

\* a value standing for a thrown exception
Throw(msg) == [ok |-> FALSE, err |-> msg]

Ok(v) == [ok |-> TRUE, val |-> v]

\* buf.slice(start, end): negative indexes count from the end, both are
\* clamped to the buffer, an end before the start gives the empty buffer
slice(buf, start, end) ==
  LET len == Len(buf)
      s0  == IF start < 0 THEN start + len ELSE start
      s   == IF s0 < 0 THEN 0 ELSE IF s0 > len THEN len ELSE s0
      e0  == IF end < 0 THEN end + len ELSE end
      e1  == IF e0 < 0 THEN 0 ELSE IF e0 > len THEN len ELSE e0
      e   == IF e1 < s THEN s ELSE e1
  IN  SubSeq(buf, s + 1, e)

\* buf.readInt8(offset): signed, throws outside the buffer
readInt8(buf, offset) ==
  IF offset < 0 \/ offset + 1 > Len(buf)
    THEN Throw("RangeError")
    ELSE LET b == buf[offset + 1]
         IN  Ok(IF b > Int8Max THEN b - (UInt8Max + 1) ELSE b)

\* buf.readInt16LE(offset): signed little-endian, throws outside the buffer
readInt16LE(buf, offset) ==
  IF offset < 0 \/ offset + 2 > Len(buf)
    THEN Throw("RangeError")
    ELSE LET v == buf[offset + 1] + 256 * buf[offset + 2]
         IN  Ok(IF v > Int16Max THEN v - (UInt16Max + 1) ELSE v)

\* buf.readUInt16LE(offset): unsigned little-endian, throws outside the buffer
readUInt16LE(buf, offset) ==
  IF offset < 0 \/ offset + 2 > Len(buf)
    THEN Throw("RangeError")
    ELSE Ok(buf[offset + 1] + 256 * buf[offset + 2])

\* Buffer.alloc(2) followed by writeUInt16BE(value, 0): throws when the value
\* does not fit 16 bits
writeUInt16BE(value) ==
  IF value < 0 \/ value > UInt16Max
    THEN Throw("RangeError")
    ELSE Ok(<<value \div 256, value % 256>>)

----------------------------------------------------------------------------
(* crc16_ccitt of the crc package: polynomial 0x1021, initial value 0xffff, *)
(* most significant bit first, no final xor                                 *)

\* x with bit k flipped
FlipBit(x, k) == IF (x \div (2 ^ k)) % 2 = 1 THEN x - 2 ^ k ELSE x + 2 ^ k

\* x xor 0x1021
XorPoly(x) == FlipBit(FlipBit(FlipBit(x, 0), 5), 12)

\* one message bit shifted into the register
crcBit(crc, bit) ==
  LET top     == ((crc \div 32768) + bit) % 2
      shifted == (crc * 2) % 65536
  IN  IF top = 1 THEN XorPoly(shifted) ELSE shifted

\* the 16-bit values of the register
UInt16 == 0..65535

\* the register after the k low bits of byte, highest first
RECURSIVE crcByte(_, _, _)
crcByte(crc, byte, k) ==
  IF k = 0 \/ crc \notin UInt16 THEN crc
  ELSE crcByte(crcBit(crc, (byte \div (2 ^ (k - 1))) % 2), byte, k - 1)

\* the register after the bytes buf[lo..hi], halving the range
RECURSIVE crcRange(_, _, _, _)
crcRange(crc, buf, lo, hi) ==
  IF lo > hi \/ crc \notin UInt16 THEN crc
  ELSE IF lo = hi THEN crcByte(crc, buf[lo], 8)
  ELSE LET mid == (lo + hi) \div 2
       IN  crcRange(crcRange(crc, buf, lo, mid), buf, mid + 1, hi)

crc16(buf) == crcRange(65535, buf, 1, Len(buf))

----------------------------------------------------------------------------
(* decomposeResponse *)

\* the loop of decomposeResponse: toRet holds one buffer per finished
\* iteration, so the loop counter is its length
RECURSIVE decomposeLoop(_, _, _, _)
decomposeLoop(buf, totalElements, index, toRet) ==
  IF ~(Len(toRet) < totalElements) THEN Ok(toRet)
  ELSE LET elLength == readInt16LE(buf, index)
       IN  IF ~elLength.ok THEN elLength
           ELSE decomposeLoop(buf, totalElements,
                  index + 2 + elLength.val,
                  Append(toRet, slice(buf, index + 2, index + 2 + elLength.val)))

decomposeResponse(buf) ==
  LET totalElements == readInt8(buf, 0)
  IN  IF ~totalElements.ok THEN totalElements
      ELSE decomposeLoop(buf, totalElements.val, 1, <<>>)

----------------------------------------------------------------------------
(* The device side of the tests: response buffers *)

\* the buffers list[lo..hi] joined in order, halving the range
RECURSIVE concatRange(_, _, _)
concatRange(list, lo, hi) ==
  IF lo > hi THEN <<>>
  ELSE IF lo = hi THEN list[lo]
  ELSE LET mid == (lo + hi) \div 2
       IN  concatRange(list, lo, mid) \o concatRange(list, mid + 1, hi)

\* Buffer.concat(list)
concat(list) == concatRange(list, 1, Len(list))

\* buildResponseFromLedger of the unit tests: the count byte, then for each
\* field its length written with writeUInt16LE and its bytes
buildResponseFromLedger(resps) ==
  <<Len(resps) % 256>> \o
  concat([k \in 1..Len(resps) |->
            <<Len(resps[k]) % 256, (Len(resps[k]) \div 256) % 256>> \o resps[k]])

\* a two-byte field holding v, as buildCommProtocol writes a CRC
crcField(v) == <<v % 256, v \div 256>>

----------------------------------------------------------------------------
(* Inputs of exchange *)

\* byte values of the enumerated payloads
PayloadBytes == {1, 170}

RECURSIVE SeqsUpTo(_, _)
SeqsUpTo(S, n) ==
  IF n = 0 THEN {<<>>}
  ELSE LET shorter == SeqsUpTo(S, n - 1)
       IN  shorter \cup {Append(q, x) : q \in {p \in shorter : Len(p) = n - 1}, x \in S}

\* An argument of exchange or an item of an array argument: its JavaScript
\* type, its bytes (a buffer), characters (a string, as character codes) or
\* value (a number), and its items (an array)
BufferArg(b) == [t |-> "buffer", v |-> b, items |-> <<>>]
StringArg(h) == [t |-> "string", v |-> h, items |-> <<>>]
NumberArg(n) == [t |-> "number", v |-> <<n>>, items |-> <<>>]
ArrayArg(a)  == [t |-> "array", v |-> <<>>, items |-> a]

\* the value of one hex digit, given by its character code
HexVal(ch) ==
  IF ch >= 48 /\ ch <= 57 THEN ch - 48
  ELSE IF ch >= 97 /\ ch <= 102 THEN ch - 87
  ELSE ch - 55

\* new Buffer(str, 'hex') for a string of whole pairs of hex digits
hexDecode(str) ==
  [k \in 1..(Len(str) \div 2) |-> 16 * HexVal(str[2 * k - 1]) + HexVal(str[2 * k])]

\* new Buffer(1) followed by writeUInt8(item, 0): throws outside 0..255
writeUInt8(item) ==
  IF item < 0 \/ item > UInt8Max THEN Throw("RangeError") ELSE Ok(<<item>>)

\* an item mapping that takes the characters of a string as its bytes
ledgerItem_charCodes(item) ==
  IF item.t = "number" THEN writeUInt8(item.v[1])
  ELSE Ok(item.v)

\* one item of an array argument (library.ts)
ledgerItem(item) ==
  IF item.t = "string" THEN Ok(hexDecode(item.v))
  ELSE IF item.t = "number" THEN writeUInt8(item.v[1])
  ELSE Ok(item.v)

\* the normalisation of DposLedger.exchange's argument
ledgerNormalize(h) ==
  IF h.t = "array"
    THEN LET parts == [k \in 1..Len(h.items) |-> ledgerItem(h.items[k])]
         IN  IF \E k \in 1..Len(parts) : ~parts[k].ok
               THEN Throw("RangeError")
               ELSE Ok(concat([k \in 1..Len(parts) |-> parts[k].val]))
  ELSE IF h.t = "string" THEN Ok(hexDecode(h.v))
  ELSE Ok(h.v)

\* a payload too long for the 2-byte length of START
OversizePayload == [k \in 1..(UInt16Max + 1) |-> 0]

\* arguments of other shapes than a lone buffer: the hex string 'aa01', a
\* mixed array, the array [255, 'Bb', 0], an array with a number above 255,
\* the empty array
ShapedArgs ==
  { StringArg(<<97, 97, 48, 49>>),
    ArrayArg(<<StringArg(<<97, 97>>), NumberArg(1), BufferArg(<<170, 1>>)>>),
    ArrayArg(<<NumberArg(255), StringArg(<<66, 98>>), NumberArg(0)>>),
    ArrayArg(<<NumberArg(256), BufferArg(<<1>>)>>),
    ArrayArg(<<>>) }

ExchangeArgs ==
  {BufferArg(b) : b \in SeqsUpTo(PayloadBytes, MaxLen)}
    \cup ShapedArgs \cup {BufferArg(OversizePayload)}

----------------------------------------------------------------------------
(* The instance: constructor of DposLedger and of CommHandler *)

\* the largest chunk size the constructors accept
ChunkLimit == 240

\* the key both constructors set on the transport
ScrambleKey == "vekexasia"

\* the constructor returns instead of throwing
constructorAccepts(transportGiven, size) ==
  /\ ~(size > ChunkLimit)
  /\ ~(size < 1)
  /\ transportGiven

\* chunk sizes the constructor is tried with
ChunkSizeArgs == (0..MaxChunk) \cup {ChunkLimit, ChunkLimit + 1}

\* chunk sizes of constructed instances
ChunkSizes == {c \in ChunkSizeArgs : constructorAccepts(TRUE, c)}

----------------------------------------------------------------------------
(* LedgerAccount (account.ts) *)

\* a JavaScript value passed to a setter: an integer, NaN, a number with a
\* fraction (v + 0.5), or a string of digits
IntArg(n) == [t |-> "integer", v |-> n]
NaNArg == [t |-> "NaN", v |-> 0]
FractionArg(n) == [t |-> "fraction", v |-> n]
DigitsArg(n) == [t |-> "string", v |-> n]

\* Number.isInteger
isInteger(x) == x.t = "integer"

\* 0x7fffffff, the largest child index: a component marked with ' has
\* 0x80000000 added to it
MaxChild == 2147483647

\* the integers the setters are called with
SetterInts == {-1, 2, MaxChild}

\* the arguments the setters are called with
SetterArgs ==
  {IntArg(n) : n \in SetterInts} \cup {NaNArg, FractionArg(1), DigitsArg(1)}

\* the field initialisers of the class
DefaultAccount == [account |-> 0, index |-> 1, coinIndex |-> 134]

\* the errors of the setters
IndexNotInteger == "Index must be an integer"
AccountNotInteger == "Account must be an integer"
CoinIndexNotInteger == "Coin index must be an integer"

\* the error a setter throws for x, "" when it stores x and returns
setterError(x, notInteger) == IF ~isInteger(x) THEN notInteger ELSE ""

\* retBuf.writeUInt32BE(r, idx * 4): the four bytes of the word r, highest
\* first; a word is a child index and its hardened bit 0x80000000
writeUInt32BE(r) ==
  <<((r.child \div 16777216) % 128) + (IF r.hardened THEN 128 ELSE 0),
    (r.child \div 65536) % 256, (r.child \div 256) % 256, r.child % 256>>

\* the path string's components: 41'/coinIndex'/0'/_account'/_index'
pathComponents(acc) == <<41, acc.coinIndex, 0, acc.account, acc.index>>

\* every component is a child index bip32-path takes: 0 .. 0x7fffffff
derivable(acc) ==
  \A k \in 1..5 : pathComponents(acc)[k] >= 0 /\ pathComponents(acc)[k] <= MaxChild

\* toPathArray(): each component plus the hardened bit; a component written
\* with a minus sign stands here for its magnitude
pathArray(acc) ==
  [k \in 1..5 |->
     LET c == pathComponents(acc)[k]
     IN  [child |-> IF c < 0 THEN 0 - c ELSE c, hardened |-> TRUE]]

\* a derivePath that writes the words lowest byte first
derivePath_littleEndian(acc) ==
  LET b == [k \in 1..5 |-> writeUInt32BE(pathArray(acc)[k])]
  IN  concat([k \in 1..5 |-> <<b[k][4], b[k][3], b[k][2], b[k][1]>>])

\* derivePath() on derivable components: the words of pathArray, big-endian
derivePath(acc) == concat([k \in 1..5 |-> writeUInt32BE(pathArray(acc)[k])])

\* what derivePath() may do: return the path; with a negative component
\* bip32-path either refuses the string or reads the digits after the sign
derivePathOutcomes(acc) ==
  IF derivable(acc) THEN {Ok(derivePath(acc))}
  ELSE {Throw("invalid input"), Ok(derivePath(acc))}

\* no facade operation under way
NoOp == [name |-> "none", what |-> BufferArg(<<>>), hasRequesterPKey |-> FALSE]

\* no outcome yet
Pending == Throw("pending")

\* no derivePath() call yet
NotDerived == [out |-> Pending, from |-> DefaultAccount]

\* a fresh account, no facade operation
NoFacade ==
  /\ ledgerAccount = DefaultAccount
  /\ given = DefaultAccount
  /\ derived = NotDerived
  /\ op = NoOp
  /\ opResult = Pending
  /\ exchangesMade = 0

\* setter(x) of the field named field
setField(field, notInteger) ==
  /\ pc = "account"
  /\ \E x \in SetterArgs :
       /\ error' = setterError(x, notInteger)
       /\ IF setterError(x, notInteger) = ""
            THEN /\ ledgerAccount' = [ledgerAccount EXCEPT ![field] = x.v]
                 /\ given' = [given EXCEPT ![field] = x.v]
            ELSE UNCHANGED <<ledgerAccount, given>>
  /\ UNCHANGED <<instFields, derived, op, opResult, exchangesMade, pc, hexData, inputBuffer, i,
                 prevCRC, calls, replies, result, notes, decVars>>

\* LedgerAccount.index(newIndex)
index == setField("index", IndexNotInteger)

\* LedgerAccount.account(newAccount)
account == setField("account", AccountNotInteger)

\* LedgerAccount.coinIndex(newIndex)
coinIndex == setField("coinIndex", CoinIndexNotInteger)

\* LedgerAccount.derivePath() called on the account
accountDerivePath ==
  /\ pc = "account"
  /\ \E d \in derivePathOutcomes(ledgerAccount) :
       /\ derived' = [out |-> d, from |-> given]
       /\ error' = IF d.ok THEN "" ELSE d.err
  /\ UNCHANGED <<instFields, ledgerAccount, given, op, opResult, exchangesMade, pc, hexData,
                 inputBuffer, i, prevCRC, calls, replies, result, notes, decVars>>

----------------------------------------------------------------------------
(* The transport and the device behind it *)

\* transport.send(0xe0, ins, 0, 0, data)
Send(ins, data) == [cla |-> 224, ins |-> ins, p1 |-> 0, p2 |-> 0, data |-> data]

INS_START == 89
INS_CONTINUE == 90
INS_END == 91

\* errors transport.send rejects with
TransportErrors == {"6a80", "Transport closed"}

CRCError == "Something went wrong during CRC validation"
PrevCRCError == "Prev CRC is not valid"

\* what a device may answer to the CONTINUE carrying chunk k of buf, prev
\* being the CRC it answered before: the cumulative CRC, the CRC of the
\* chunk alone, either with the previous CRC as a second field, a corrupted
\* CRC, a wrong previous CRC, no field, a field of one byte
ContinueReplies(buf, k, size, prev) ==
  LET upto   == Min(Len(buf), (k + 1) * size)
      prefix == SubSeq(buf, 1, upto)
      chunk  == SubSeq(buf, k * size + 1, upto)
      cum    == crcField(crc16(prefix))
      one    == crcField(crc16(chunk))
  IN  { buildResponseFromLedger(<<cum>>),
        buildResponseFromLedger(<<one>>),
        buildResponseFromLedger(<<cum, crcField(prev)>>),
        buildResponseFromLedger(<<one, crcField(prev)>>),
        buildResponseFromLedger(<<one, crcField((prev + 1) % 65536)>>),
        <<1, 2, 0, 0, 0>>,
        <<0>>,
        <<1, 1, 0, 7>> }

\* what a device may answer to END: one field, no field, a field cut short,
\* a count with no field behind it, nothing at all
EndReplies ==
  { buildResponseFromLedger(<<<<170>>>>),
    buildResponseFromLedger(<<<<170, 187>>, <<>>>>),
    <<0>>,
    <<1, 5, 0, 170>>,
    <<2, 1, 0, 170>>,
    <<>> }

\* the bytes of 'PONG'
PONG == <<80, 79, 78, 71>>

\* what the app behind a facade operation may also answer to END: 'PONG',
\* 'PONG' with a second field, 'PONG!', a key and an address
FacadeEndReplies ==
  { buildResponseFromLedger(<<PONG>>),
    buildResponseFromLedger(<<PONG, <<49>>>>),
    buildResponseFromLedger(<<PONG \o <<33>>>>),
    buildResponseFromLedger(<<<<170, 1>>, <<49, 76>>>>) }

\* the answers to END: those above when a facade operation made the exchange
DeviceEndReplies ==
  IF op.name = "none" THEN EndReplies ELSE EndReplies \cup FacadeEndReplies

----------------------------------------------------------------------------
(* DposLedger.exchange (library.ts) *)

\* the length written low byte first
startCommBuffer_littleEndian(len) ==
  IF len < 0 \/ len > UInt16Max
    THEN Throw("RangeError")
    ELSE Ok(<<len % 256, len \div 256>>)

\* startCommBuffer: the payload of START
startCommBuffer(len) == writeUInt16BE(len)

\* nChunks rounded down: the short last chunk is dropped
nChunks_floor(len, chunkDataSize) == len \div chunkDataSize

\* nChunks with one chunk too many when the size divides the length
nChunks_extraChunk(len, chunkDataSize) == len \div chunkDataSize + 1

\* nChunks never below one: an empty payload still gets a chunk
nChunks_atLeastOne(len, chunkDataSize) ==
  IF len = 0 THEN 1 ELSE Ceil(len, chunkDataSize)

\* nChunks
nChunks(len, chunkDataSize) == Ceil(len, chunkDataSize)

\* dataSize of chunk k
dataSize(len, k, chunkDataSize) ==
  Min(len, (k + 1) * chunkDataSize) - k * chunkDataSize

\* the chunk cut one byte early, so that neighbours overlap
dataBuffer_overlapping(buf, k, chunkDataSize) ==
  slice(buf, IF k = 0 THEN 0 ELSE k * chunkDataSize - 1,
        k * chunkDataSize + dataSize(Len(buf), k, chunkDataSize))

\* dataBuffer: the bytes of chunk k
dataBuffer(buf, k, chunkDataSize) ==
  slice(buf, k * chunkDataSize,
        k * chunkDataSize + dataSize(Len(buf), k, chunkDataSize))

\* the CRC of chunk k alone
ledgerCRC_chunkOnly(buf, k, chunkDataSize) ==
  crc16(slice(buf, k * chunkDataSize,
              k * chunkDataSize + dataSize(Len(buf), k, chunkDataSize)))

\* crc: the CRC DposLedger expects in the reply to chunk k
ledgerCRC(buf, k, chunkDataSize) ==
  crc16(slice(buf, 0, k * chunkDataSize + dataSize(Len(buf), k, chunkDataSize)))

\* the test that throws the CRC validation error
crcMismatch(crc, receivedCRC) == crc # receivedCRC

\* the first field of a decomposed reply read as a 16-bit little-endian
\* value; reading a missing field is a TypeError
firstFieldUInt16(dec) ==
  IF ~dec.ok THEN dec
  ELSE IF Len(dec.val) < 1 THEN Throw("TypeError")
  ELSE readUInt16LE(dec.val[1], 0)

\* the exchange throws, and END is sent to close the flow on the way out
rejectWith_thenEnd(err) ==
  /\ pc' = "rejected"
  /\ error' = err
  /\ calls' = Append(calls, Send(INS_END, <<>>))
  /\ UNCHANGED <<i, result>>

\* the exchange throws: the promise rejects with err
rejectWith(err) ==
  /\ pc' = "rejected"
  /\ error' = err
  /\ UNCHANGED <<calls, i, result>>

\* the chunk loop running one index too far
ledgerLoop_offByOne(k) ==
  /\ i' = k
  /\ IF k <= nChunks(Len(inputBuffer), chunkSize)
       THEN /\ calls' = Append(calls, Send(INS_CONTINUE, dataBuffer(inputBuffer, k, chunkSize)))
            /\ pc' = "awaitChunk"
       ELSE /\ calls' = Append(calls, Send(INS_END, <<>>))
            /\ pc' = "awaitEnd"
  /\ UNCHANGED <<error, result>>

\* the head of the chunk loop with index k: the next CONTINUE, or END
ledgerLoop(k) ==
  /\ i' = k
  /\ IF k < nChunks(Len(inputBuffer), chunkSize)
       THEN /\ calls' = Append(calls, Send(INS_CONTINUE, dataBuffer(inputBuffer, k, chunkSize)))
            /\ pc' = "awaitChunk"
       ELSE /\ calls' = Append(calls, Send(INS_END, <<>>))
            /\ pc' = "awaitEnd"
  /\ UNCHANGED <<error, result>>

\* exchange(h), from its first statement up to the first await
exchangeCalled(h) ==
  /\ LET nb == ledgerNormalize(h)
         sb == IF nb.ok THEN startCommBuffer(Len(nb.val)) ELSE nb
     IN  /\ hexData' = h
         /\ inputBuffer' = IF nb.ok THEN nb.val ELSE <<>>
         /\ IF sb.ok
              THEN /\ calls' = <<Send(INS_START, sb.val)>>
                   /\ pc' = "awaitStart"
                   /\ error' = ""
              ELSE /\ calls' = <<>>
                   /\ pc' = "rejected"
                   /\ error' = sb.err
  /\ i' = 0
  /\ replies' = <<>>
  /\ result' = <<>>
  /\ UNCHANGED <<prevCRC, notes, decVars>>

\* exchange is called, with no other exchange in flight: up to the first await
exchange ==
  /\ pc = "idle"
  /\ \E h \in ExchangeArgs : exchangeCalled(h)
  /\ UNCHANGED instVars

\* START returned
exchangeAfterStart ==
  /\ pc = "awaitStart"
  /\ replies' = Append(replies, Ok(<<>>))
  /\ ledgerLoop(0)
  /\ UNCHANGED <<instVars, hexData, inputBuffer, prevCRC, notes, decVars>>

\* a loop that validates the CRC of the last chunk only
chunkReturned_lastChunkOnly(r) ==
  LET receivedCRC == firstFieldUInt16(decomposeResponse(r))
      crc         == ledgerCRC(inputBuffer, i, chunkSize)
      last        == i + 1 = nChunks(Len(inputBuffer), chunkSize)
  IN  /\ replies' = Append(replies, Ok(r))
      /\ IF ~receivedCRC.ok THEN rejectWith(receivedCRC.err)
         ELSE IF last /\ crcMismatch(crc, receivedCRC.val) THEN rejectWith(CRCError)
         ELSE ledgerLoop(i + 1)

\* the body of the chunk loop after its await: the CONTINUE of chunk i
\* returned r
chunkReturned(r) ==
  LET receivedCRC == firstFieldUInt16(decomposeResponse(r))
      crc         == ledgerCRC(inputBuffer, i, chunkSize)
  IN  /\ replies' = Append(replies, Ok(r))
      /\ IF ~receivedCRC.ok THEN rejectWith(receivedCRC.err)
         ELSE IF crcMismatch(crc, receivedCRC.val) THEN rejectWith(CRCError)
         ELSE ledgerLoop(i + 1)

\* the CONTINUE of chunk i returned
exchangeAfterChunk ==
  /\ pc = "awaitChunk"
  /\ \E r \in ContinueReplies(inputBuffer, i, chunkSize, 0) : chunkReturned(r)
  /\ UNCHANGED <<instVars, hexData, inputBuffer, prevCRC, notes, decVars>>

\* END returned
exchangeAfterEnd ==
  /\ pc = "awaitEnd"
  /\ \E r \in DeviceEndReplies :
       LET dec == decomposeResponse(r)
       IN  /\ replies' = Append(replies, Ok(r))
           /\ IF dec.ok
                THEN /\ pc' = "resolved"
                     /\ result' = dec.val
                     /\ UNCHANGED <<calls, i, error>>
                ELSE rejectWith(dec.err)
  /\ UNCHANGED <<instVars, hexData, inputBuffer, prevCRC, notes, decVars>>

\* the pending transport.send rejects and the call is sent once more
transportFails_retry ==
  /\ pc \in {"awaitStart", "awaitChunk", "awaitEnd"}
  /\ \E e \in TransportErrors :
       /\ replies' = Append(replies, Throw(e))
       /\ IF \A k \in 1..Len(replies) : replies[k].ok
            THEN /\ calls' = Append(calls, calls[Len(calls)])
                 /\ UNCHANGED <<pc, error, i, result>>
            ELSE /\ pc' = "rejected"
                 /\ error' = e
                 /\ UNCHANGED <<calls, i, result>>
  /\ UNCHANGED <<instVars, hexData, inputBuffer, prevCRC, notes, decVars>>

\* the pending transport.send rejects
transportFails ==
  /\ pc \in {"awaitStart", "awaitChunk", "awaitEnd"}
  /\ \E e \in TransportErrors :
       /\ replies' = Append(replies, Throw(e))
       /\ rejectWith(e)
  /\ UNCHANGED <<instVars, hexData, inputBuffer, prevCRC, notes, decVars>>

\* the caller has taken the outcome of the settled promise; the locals of
\* the finished call are gone and the instance is as constructed
exchangeSettled ==
  /\ pc \in {"resolved", "rejected"}
  /\ pc' = "idle"
  /\ hexData' = BufferArg(<<>>)
  /\ inputBuffer' = <<>>
  /\ i' = 0
  /\ prevCRC' = 0
  /\ calls' = <<>>
  /\ replies' = <<>>
  /\ error' = ""
  /\ result' = <<>>
  /\ notes' = <<>>
  /\ UNCHANGED <<instVars, decVars>>

----------------------------------------------------------------------------
(* CommHandler.exchange (commHandler.ts) *)

\* Buffer.alloc(1).fill(item): the low 8 bits of the number
fillByte(item) == <<item % (UInt8Max + 1)>>

\* one item of an array argument (commHandler.ts)
commItem(item) ==
  IF item.t = "string" THEN hexDecode(item.v)
  ELSE IF item.t = "number" THEN fillByte(item.v[1])
  ELSE item.v

\* the normalisation of CommHandler.exchange's argument
commNormalize(h) ==
  IF h.t = "array" THEN concat([k \in 1..Len(h.items) |-> commItem(h.items[k])])
  ELSE IF h.t = "string" THEN hexDecode(h.v)
  ELSE IF h.t = "number" THEN fillByte(h.v[1])
  ELSE h.v

CommExchangeArgs == ExchangeArgs \cup {NumberArg(17), NumberArg(256)}

\* the CRC of the payload prefix that ends with chunk k
commCRC_cumulative(buf, k, chunkDataSize) ==
  crc16(slice(buf, 0, k * chunkDataSize + dataSize(Len(buf), k, chunkDataSize)))

\* crc: the CRC CommHandler expects in the reply to chunk k
commCRC(buf, k, chunkDataSize) == crc16(dataBuffer(buf, k, chunkDataSize))

\* a reading that takes a missing field for the value 0
fieldUInt16_missingIsZero(dec, n) ==
  IF ~dec.ok THEN dec
  ELSE IF Len(dec.val) < n THEN Ok(0)
  ELSE readUInt16LE(dec.val[n], 0)

\* field n (from 1) of a decomposed reply read as a 16-bit little-endian
\* value; reading a missing field is a TypeError
fieldUInt16(dec, n) ==
  IF ~dec.ok THEN dec
  ELSE IF Len(dec.val) < n THEN Throw("TypeError")
  ELSE readUInt16LE(dec.val[n], 0)

\* what a device may answer to a CONTINUE of CommHandler: the replies above,
\* one with both fields wrong, one whose second field is a single byte
CommContinueReplies(buf, k, size, prev) ==
  LET one == crc16(SubSeq(buf, k * size + 1, Min(Len(buf), (k + 1) * size)))
  IN  ContinueReplies(buf, k, size, prev) \cup
        { buildResponseFromLedger(<<crcField((one + 1) % 65536),
                                    crcField((prev + 1) % 65536)>>),
          buildResponseFromLedger(<<crcField(one), <<prev % 256>>>>) }

\* a test of the echoed previous CRC that lets the first chunk through
prevCRCMismatch_afterFirstChunk(prevCRCLedger, prev) ==
  prev # 0 /\ prevCRCLedger # prev

\* the test that throws 'Prev CRC is not valid'
prevCRCMismatch(prevCRCLedger, prev) == prevCRCLedger # prev

\* a listener called twice for each event
notify_twice(ev, data) ==
  notes' = IF progressListener
             THEN notes \o << [ev |-> ev, data |-> data, sent |-> Len(calls)],
                              [ev |-> ev, data |-> data, sent |-> Len(calls)] >>
             ELSE notes

\* a listener whose onEnd is never called
notify_withoutOnEnd(ev, data) ==
  notes' = IF progressListener /\ ev # "onEnd"
             THEN Append(notes, [ev |-> ev, data |-> data, sent |-> Len(calls)])
             ELSE notes

\* a notification placed after the transport call that follows it
notify_afterSend(ev, data) ==
  notes' = IF progressListener
             THEN Append(notes, [ev |-> ev, data |-> data, sent |-> Len(calls) + 1])
             ELSE notes

\* a notification, when a progress listener is set; sent records how many
\* transport calls the exchange had made when the listener was called
notify(ev, data) ==
  notes' = IF progressListener
             THEN Append(notes, [ev |-> ev, data |-> data, sent |-> Len(calls)])
             ELSE notes

\* the head of the chunk loop with index k: the next CONTINUE, or END
commLoop(k) ==
  /\ i' = k
  /\ IF k < nChunks(Len(inputBuffer), chunkSize)
       THEN /\ calls' = Append(calls, Send(INS_CONTINUE, dataBuffer(inputBuffer, k, chunkSize)))
            /\ pc' = "awaitChunk"
       ELSE /\ calls' = Append(calls, Send(INS_END, <<>>))
            /\ pc' = "awaitEnd"
  /\ UNCHANGED <<error, result>>

\* exchange(h), from its first statement up to the first await
commExchangeCalled(h) ==
  /\ LET nb == commNormalize(h)
         sb == startCommBuffer(Len(nb))
     IN  /\ hexData' = h
         /\ inputBuffer' = nb
         /\ IF sb.ok
              THEN /\ notify("onStart", <<>>)
                   /\ calls' = <<Send(INS_START, sb.val)>>
                   /\ pc' = "awaitStart"
                   /\ error' = ""
              ELSE /\ notes' = <<>>
                   /\ calls' = <<>>
                   /\ pc' = "rejected"
                   /\ error' = sb.err
  /\ i' = 0
  /\ prevCRC' = 0
  /\ replies' = <<>>
  /\ result' = <<>>
  /\ UNCHANGED decVars

\* exchange is called, with no other exchange in flight: up to the first await
commExchange ==
  /\ pc = "idle"
  /\ \E h \in CommExchangeArgs : commExchangeCalled(h)
  /\ UNCHANGED instVars

\* START returned
commAfterStart ==
  /\ pc = "awaitStart"
  /\ replies' = Append(replies, Ok(<<>>))
  /\ commLoop(0)
  /\ prevCRC' = 0
  /\ UNCHANGED <<instVars, hexData, inputBuffer, notes, decVars>>

\* the CONTINUE of chunk i returned
commAfterChunk ==
  /\ pc = "awaitChunk"
  /\ \E r \in CommContinueReplies(inputBuffer, i, chunkSize, prevCRC) :
       LET dec           == decomposeResponse(r)
           receivedCRC   == fieldUInt16(dec, 1)
           prevCRCLedger == fieldUInt16(dec, 2)
           crc           == commCRC(inputBuffer, i, chunkSize)
       IN  /\ replies' = Append(replies, Ok(r))
           /\ IF ~receivedCRC.ok
                THEN rejectWith(receivedCRC.err) /\ UNCHANGED <<prevCRC, notes>>
              ELSE IF crcMismatch(crc, receivedCRC.val)
                THEN rejectWith(CRCError) /\ UNCHANGED <<prevCRC, notes>>
              ELSE IF ~prevCRCLedger.ok
                THEN rejectWith(prevCRCLedger.err) /\ UNCHANGED <<prevCRC, notes>>
              ELSE IF prevCRCMismatch(prevCRCLedger.val, prevCRC)
                THEN rejectWith(PrevCRCError) /\ UNCHANGED <<prevCRC, notes>>
              ELSE /\ prevCRC' = crc
                   /\ notify("onChunkProcessed", dataBuffer(inputBuffer, i, chunkSize))
                   /\ commLoop(i + 1)
  /\ UNCHANGED <<instVars, hexData, inputBuffer, decVars>>

\* END returned
commAfterEnd ==
  /\ pc = "awaitEnd"
  /\ \E r \in DeviceEndReplies :
       LET dec == decomposeResponse(r)
       IN  /\ replies' = Append(replies, Ok(r))
           /\ notify("onEnd", <<>>)
           /\ IF dec.ok
                THEN /\ pc' = "resolved"
                     /\ result' = dec.val
                     /\ UNCHANGED <<calls, i, error>>
                ELSE rejectWith(dec.err)
  /\ UNCHANGED <<instVars, hexData, inputBuffer, prevCRC, decVars>>

Init ==
  /\ self = "DposLedger"
  /\ transport = TRUE
  /\ scrambleKeys = <<ScrambleKey>>
  /\ earlier = "none"
  /\ serialized = TRUE
  /\ chunkSize \in ChunkSizes
  /\ progressListener = FALSE
  /\ pc = "idle"
  /\ hexData = BufferArg(<<>>)
  /\ inputBuffer = <<>>
  /\ i = 0
  /\ prevCRC = 0
  /\ calls = <<>>
  /\ replies = <<>>
  /\ error = ""
  /\ result = <<>>
  /\ notes = <<>>
  /\ resBuf = <<>>
  /\ fieldsIn = <<>>
  /\ decoded = Ok(<<>>)
  /\ NoFacade

Next ==
  \/ exchange
  \/ exchangeAfterStart
  \/ exchangeAfterChunk
  \/ exchangeAfterEnd
  \/ transportFails
  \/ exchangeSettled

Spec == Init /\ [][Next]_vars

\* the transport call the exchange awaits returns, with a response or with
\* an error, and the exchange runs on to its next await or to its end
transportReturns ==
  transportFails \/ exchangeAfterStart \/ exchangeAfterEnd \/ exchangeAfterChunk

\* DposLedger.exchange over a transport whose every call eventually returns
SpecLive == Spec /\ WF_vars(transportReturns)

\* a CommHandler instance, with or without a progress listener
InitComm ==
  /\ self = "CommHandler"
  /\ transport = TRUE
  /\ scrambleKeys = <<ScrambleKey>>
  /\ earlier = "none"
  /\ serialized = TRUE
  /\ chunkSize \in ChunkSizes
  /\ progressListener \in BOOLEAN
  /\ pc = "idle"
  /\ hexData = BufferArg(<<>>)
  /\ inputBuffer = <<>>
  /\ i = 0
  /\ prevCRC = 0
  /\ calls = <<>>
  /\ replies = <<>>
  /\ error = ""
  /\ result = <<>>
  /\ notes = <<>>
  /\ resBuf = <<>>
  /\ fieldsIn = <<>>
  /\ decoded = Ok(<<>>)
  /\ NoFacade

NextComm ==
  \/ commExchange
  \/ commAfterStart
  \/ commAfterChunk
  \/ commAfterEnd
  \/ transportFails
  \/ exchangeSettled

SpecComm == InitComm /\ [][NextComm]_vars

----------------------------------------------------------------------------
(* Construction: new DposLedger(transport, chunkSize) and                  *)
(* new CommHandler(transport, chunkSize), then exchanges on the instance   *)

\* the errors the constructors throw
ChunkTooLarge == "Chunk size cannot exceed 240"
ChunkTooSmall == "Chunk size cannot be less than 1"
TransportEmpty == "Transport cannot be empty"
ConfigErrors == {ChunkTooLarge, ChunkTooSmall, TransportEmpty}

\* the constructor with only the upper check on the chunk size
constructorError_noLowerCheck(transportGiven, size) ==
  IF size > ChunkLimit THEN ChunkTooLarge
  ELSE IF ~transportGiven THEN TransportEmpty
  ELSE ""

\* the error the constructor throws, "" when it returns
constructorError(transportGiven, size) ==
  IF size > ChunkLimit THEN ChunkTooLarge
  ELSE IF size < 1 THEN ChunkTooSmall
  ELSE IF ~transportGiven THEN TransportEmpty
  ELSE ""

\* a constructor that sets the key as soon as it holds a transport
scrambleKeysSet_beforeChecks(transportGiven, size) ==
  IF transportGiven THEN <<ScrambleKey>> ELSE <<>>

\* the setScrambleKey calls of the constructor: one, its last statement
scrambleKeysSet(transportGiven, size) ==
  IF constructorError(transportGiven, size) = "" THEN <<ScrambleKey>> ELSE <<>>

\* chunk sizes the constructors are called with here
ConstructorSizes == ChunkSizeArgs \cup {-1}

\* new class(t, size): in a state where the constructor threw, transport and
\* chunkSize hold the arguments it was called with
construct(class) ==
  /\ pc = "new"
  /\ \E t \in BOOLEAN, size \in ConstructorSizes :
       /\ self' = class
       /\ transport' = t
       /\ chunkSize' = size
       /\ scrambleKeys' = scrambleKeys \o scrambleKeysSet(t, size)
       /\ error' = constructorError(t, size)
       /\ pc' = IF constructorError(t, size) = "" THEN "idle" ELSE "threw"
  /\ UNCHANGED <<facadeVars, earlier, serialized, progressListener, hexData, inputBuffer, i, prevCRC,
                 calls, replies, result, notes, decVars>>

ledgerConstruct == construct("DposLedger")

commConstruct == construct("CommHandler")

\* the caller sets the public field progressListener of an idle CommHandler
attachListener ==
  /\ pc = "idle"
  /\ self = "CommHandler"
  /\ ~progressListener
  /\ progressListener' = TRUE
  /\ UNCHANGED <<facadeVars, self, transport, scrambleKeys, earlier, serialized, chunkSize, pc, hexData,
                 inputBuffer, i,
                 prevCRC, calls, replies, error, result, notes, decVars>>

ledgerStep == self = "DposLedger" /\ Next

commStep == self = "CommHandler" /\ NextComm

InitNew ==
  /\ self = "none"
  /\ transport = FALSE
  /\ scrambleKeys = <<>>
  /\ earlier = "none"
  /\ serialized = TRUE
  /\ chunkSize = 0
  /\ progressListener = FALSE
  /\ pc = "new"
  /\ hexData = BufferArg(<<>>)
  /\ inputBuffer = <<>>
  /\ i = 0
  /\ prevCRC = 0
  /\ calls = <<>>
  /\ replies = <<>>
  /\ error = ""
  /\ result = <<>>
  /\ notes = <<>>
  /\ resBuf = <<>>
  /\ fieldsIn = <<>>
  /\ decoded = Ok(<<>>)
  /\ NoFacade

NextNew ==
  \/ ledgerConstruct
  \/ commConstruct
  \/ attachListener
  \/ ledgerStep
  \/ commStep

SpecNew == InitNew /\ [][NextNew]_vars

----------------------------------------------------------------------------
(* One instance serving exchange after exchange, the caller awaiting each  *)
(* before the next: earlier records how the previous one ended             *)

\* how a settled exchange ended
outcome ==
  IF pc = "resolved" THEN "resolved"
  ELSE IF error \in TransportErrors THEN "transport error"
  ELSE IF error \in {CRCError, PrevCRCError} THEN "CRC mismatch"
  ELSE "malformed response"

\* the settled promise is taken and a failed exchange costs the instance
\* its transport
exchangeReturned_dropsTransport ==
  /\ pc \in {"resolved", "rejected"}
  /\ earlier' = outcome
  /\ transport' = (pc = "resolved")
  /\ pc' = "idle"
  /\ hexData' = BufferArg(<<>>)
  /\ inputBuffer' = <<>>
  /\ i' = 0
  /\ calls' = <<>>
  /\ replies' = <<>>
  /\ error' = ""
  /\ result' = <<>>
  /\ UNCHANGED <<facadeVars, self, scrambleKeys, serialized, chunkSize, progressListener, prevCRC, notes,
                 decVars>>

\* the settled promise is taken and a failed exchange makes the instance
\* fall back to chunks of one byte
exchangeReturned_shrinksChunk ==
  /\ pc \in {"resolved", "rejected"}
  /\ earlier' = outcome
  /\ chunkSize' = (IF pc = "rejected" THEN 1 ELSE chunkSize)
  /\ pc' = "idle"
  /\ hexData' = BufferArg(<<>>)
  /\ inputBuffer' = <<>>
  /\ i' = 0
  /\ calls' = <<>>
  /\ replies' = <<>>
  /\ error' = ""
  /\ result' = <<>>
  /\ UNCHANGED <<facadeVars, self, transport, scrambleKeys, serialized, progressListener, prevCRC, notes,
                 decVars>>

\* the caller has taken the outcome of the settled promise: the locals of the
\* finished call are gone (prevCRC, which the next call declares anew, is
\* left as it was), the fields of the instance are untouched
exchangeReturned ==
  /\ pc \in {"resolved", "rejected"}
  /\ earlier' = outcome
  /\ pc' = "idle"
  /\ hexData' = BufferArg(<<>>)
  /\ inputBuffer' = <<>>
  /\ i' = 0
  /\ calls' = <<>>
  /\ replies' = <<>>
  /\ error' = ""
  /\ result' = <<>>
  /\ UNCHANGED <<facadeVars, self, transport, scrambleKeys, serialized, chunkSize, progressListener,
                 prevCRC, notes, decVars>>

ledgerRuns ==
  /\ self = "DposLedger"
  /\ exchange \/ exchangeAfterStart \/ exchangeAfterChunk \/ exchangeAfterEnd \/ transportFails

commRuns ==
  /\ self = "CommHandler"
  /\ commExchange \/ commAfterStart \/ commAfterChunk \/ commAfterEnd \/ transportFails

InitReuse ==
  /\ self \in {"DposLedger", "CommHandler"}
  /\ transport = TRUE
  /\ scrambleKeys = <<ScrambleKey>>
  /\ earlier = "none"
  /\ serialized = TRUE
  /\ chunkSize \in ChunkSizes
  /\ progressListener = FALSE
  /\ pc = "idle"
  /\ hexData = BufferArg(<<>>)
  /\ inputBuffer = <<>>
  /\ i = 0
  /\ prevCRC = 0
  /\ calls = <<>>
  /\ replies = <<>>
  /\ error = ""
  /\ result = <<>>
  /\ notes = <<>>
  /\ resBuf = <<>>
  /\ fieldsIn = <<>>
  /\ decoded = Ok(<<>>)
  /\ NoFacade

NextReuse ==
  \/ ledgerRuns
  \/ commRuns
  \/ exchangeReturned

SpecReuse == InitReuse /\ [][NextReuse]_vars

----------------------------------------------------------------------------
(* Two callers of exchange on one DposLedger and its one transport.  Here  *)
(* pc, inputBuffer, i, error and result hold one value per caller, calls   *)
(* is the order in which the transport received all calls, each tagged     *)
(* with the caller whose exchange made it.                                 *)

Callers == {1, 2}

\* the longest payload of a concurrent caller
MaxConcurrentLen == 2

ConcurrentPayloads == SeqsUpTo({1}, MaxConcurrentLen)

\* an exchange taken to be over once its START has returned
InFlight_untilStartReturns(c) == pc[c] = "awaitStart"

\* caller c has an exchange suspended at one of its awaits
InFlight(c) == pc[c] \in {"awaitStart", "awaitChunk", "awaitEnd"}

\* transport.send(0xe0, ins, 0, 0, data) made by the exchange of caller c
SendBy(c, ins, data) ==
  [cla |-> 224, ins |-> ins, p1 |-> 0, p2 |-> 0, data |-> data, by |-> c]

\* what the device may answer to the CONTINUE of chunk k of buf while calls
\* of two exchanges reach it: the CRC of that exchange's prefix, or another
ConcurrentReplies(buf, k, size) ==
  { buildResponseFromLedger(<<crcField(crc16(SubSeq(buf, 1, Min(Len(buf), (k + 1) * size))))>>),
    <<1, 2, 0, 0, 0>> }

\* the exchange of caller c throws
concurrentReject(c, err) ==
  /\ pc' = [pc EXCEPT ![c] = "rejected"]
  /\ error' = [error EXCEPT ![c] = err]
  /\ UNCHANGED <<calls, i, result>>

\* the head of the chunk loop of caller c with index k
concurrentLoop(c, k) ==
  /\ i' = [i EXCEPT ![c] = k]
  /\ IF k < nChunks(Len(inputBuffer[c]), chunkSize)
       THEN /\ calls' = Append(calls,
                 SendBy(c, INS_CONTINUE, dataBuffer(inputBuffer[c], k, chunkSize)))
            /\ pc' = [pc EXCEPT ![c] = "awaitChunk"]
       ELSE /\ calls' = Append(calls, SendBy(c, INS_END, <<>>))
            /\ pc' = [pc EXCEPT ![c] = "awaitEnd"]
  /\ UNCHANGED <<error, result>>

\* caller c calls exchange with a Buffer; serialized callers wait until no
\* exchange is in flight
concurrentExchange(c) ==
  /\ pc[c] = "idle"
  /\ serialized => \A d \in Callers : ~InFlight(d)
  /\ \E b \in ConcurrentPayloads :
       /\ inputBuffer' = [inputBuffer EXCEPT ![c] = b]
       /\ IF startCommBuffer(Len(b)).ok
            THEN /\ calls' = Append(calls, SendBy(c, INS_START, startCommBuffer(Len(b)).val))
                 /\ pc' = [pc EXCEPT ![c] = "awaitStart"]
                 /\ UNCHANGED error
            ELSE /\ pc' = [pc EXCEPT ![c] = "rejected"]
                 /\ error' = [error EXCEPT ![c] = startCommBuffer(Len(b)).err]
                 /\ UNCHANGED calls
  /\ UNCHANGED <<instVars, hexData, i, prevCRC, replies, result, notes, decVars>>

\* the START of caller c returned
concurrentAfterStart(c) ==
  /\ pc[c] = "awaitStart"
  /\ concurrentLoop(c, 0)
  /\ UNCHANGED <<instVars, hexData, inputBuffer, prevCRC, replies, notes, decVars>>

\* the CONTINUE of chunk i of caller c returned
concurrentAfterChunk(c) ==
  /\ pc[c] = "awaitChunk"
  /\ \E r \in ConcurrentReplies(inputBuffer[c], i[c], chunkSize) :
       LET receivedCRC == firstFieldUInt16(decomposeResponse(r))
           crc         == ledgerCRC(inputBuffer[c], i[c], chunkSize)
       IN  IF ~receivedCRC.ok THEN concurrentReject(c, receivedCRC.err)
           ELSE IF crcMismatch(crc, receivedCRC.val) THEN concurrentReject(c, CRCError)
           ELSE concurrentLoop(c, i[c] + 1)
  /\ UNCHANGED <<instVars, hexData, inputBuffer, prevCRC, replies, notes, decVars>>

\* the END of caller c returned
concurrentAfterEnd(c) ==
  /\ pc[c] = "awaitEnd"
  /\ LET dec == decomposeResponse(buildResponseFromLedger(<<<<170>>>>))
     IN  /\ pc' = [pc EXCEPT ![c] = "resolved"]
         /\ result' = [result EXCEPT ![c] = dec.val]
  /\ UNCHANGED <<instVars, hexData, inputBuffer, i, prevCRC, calls, replies, error,
                 notes, decVars>>

\* the pending transport.send of caller c rejects
concurrentSendFails(c) ==
  /\ InFlight(c)
  /\ \E e \in TransportErrors : concurrentReject(c, e)
  /\ UNCHANGED <<instVars, hexData, inputBuffer, prevCRC, replies, notes, decVars>>

InitConcurrent ==
  /\ self = "DposLedger"
  /\ transport = TRUE
  /\ scrambleKeys = <<ScrambleKey>>
  /\ earlier = "none"
  /\ serialized \in BOOLEAN
  /\ chunkSize \in ChunkSizes
  /\ progressListener = FALSE
  /\ pc = [c \in Callers |-> "idle"]
  /\ hexData = BufferArg(<<>>)
  /\ inputBuffer = [c \in Callers |-> <<>>]
  /\ i = [c \in Callers |-> 0]
  /\ prevCRC = 0
  /\ calls = <<>>
  /\ replies = <<>>
  /\ error = [c \in Callers |-> ""]
  /\ result = [c \in Callers |-> <<>>]
  /\ notes = <<>>
  /\ resBuf = <<>>
  /\ fieldsIn = <<>>
  /\ decoded = Ok(<<>>)
  /\ NoFacade

NextConcurrent ==
  \E c \in Callers :
    \/ concurrentExchange(c)
    \/ concurrentAfterStart(c)
    \/ concurrentAfterChunk(c)
    \/ concurrentAfterEnd(c)
    \/ concurrentSendFails(c)

SpecConcurrent == InitConcurrent /\ [][NextConcurrent]_vars

----------------------------------------------------------------------------
(* The DposLedger of library.ts 257-428: constructor(chunkSize), its comm  *)
(* created on the first exchange, requests sent as whole APDUs.  Here      *)
(* transport stands for this.comm and a call is the sequence of bytes      *)
(* handed to comm.exchange.                                                *)

LegacyChunkTooLarge == "Chunk Size cannot exceed 240"

\* the error the constructor throws, "" when it returns
legacyConstructorError(size) ==
  IF size > ChunkLimit THEN LegacyChunkTooLarge ELSE ""

\* new DposLedger(size): comm is null
legacyConstruct ==
  /\ pc = "new"
  /\ \E size \in ConstructorSizes :
       /\ self' = "LegacyDposLedger"
       /\ transport' = FALSE
       /\ chunkSize' = size
       /\ error' = legacyConstructorError(size)
       /\ pc' = IF legacyConstructorError(size) = "" THEN "idle" ELSE "threw"
  /\ UNCHANGED <<facadeVars, scrambleKeys, earlier, serialized, progressListener, hexData, inputBuffer, i, prevCRC,
                 calls, replies, result, notes, decVars>>

\* i < nChunks, with nChunks = Math.ceil(len / chunkDataSize) in JavaScript
\* numbers: len / 0 is Infinity, 0 / 0 is NaN and compares false, and
\* the quotient by a negative size is at most 0
legacyLoopRuns(k, len, chunkDataSize) ==
  IF chunkDataSize = 0 THEN len > 0
  ELSE IF chunkDataSize < 0 THEN k < 0 - (len \div (0 - chunkDataSize))
  ELSE k < Ceil(len, chunkDataSize)

\* tempBuffer = new Buffer(chunkDataSize + 2), then writeUInt8(90, 0)
legacyTempBuffer(chunkDataSize) ==
  IF chunkDataSize + 2 < 1 THEN Throw("RangeError") ELSE Ok(chunkDataSize + 2)

\* what the memory of new Buffer(n) may hold before it is written
UninitializedBytes == {0, UInt8Max}

\* tempBuffer after the writes of iteration k of the loop, every byte of it
\* being fill before the loop (k = -1): byte 0 is 90, byte 1 the dataSize of
\* the iteration, the bytes from 2 on the chunk copied over what the
\* iteration before left there
RECURSIVE tempBufferAt(_, _, _, _)
tempBufferAt(buf, k, chunkDataSize, fill) ==
  IF k < 0
    THEN <<INS_CONTINUE>> \o [j \in 1..(chunkDataSize + 1) |-> fill]
    ELSE LET before == tempBufferAt(buf, k - 1, chunkDataSize, fill)
             n      == dataSize(Len(buf), k, chunkDataSize)
             chunk  == dataBuffer(buf, k, chunkDataSize)
         IN  [j \in 1..Len(before) |->
                IF j = 2 THEN n
                ELSE IF j >= 3 /\ j <= n + 2 THEN chunk[j - 2]
                ELSE before[j]]

\* the whole of tempBuffer handed to comm.exchange
legacyPacket_wholeBuffer(buf, k, chunkDataSize, fill) ==
  tempBufferAt(buf, k, chunkDataSize, fill)

\* tempBuffer.slice(0, dataSize + 2): the APDU of chunk k
legacyPacket(buf, k, chunkDataSize, fill) ==
  slice(tempBufferAt(buf, k, chunkDataSize, fill), 0,
        dataSize(Len(buf), k, chunkDataSize) + 2)

\* the head of the chunk loop with index k: the next CONTINUE, or END
legacyLoop(k) ==
  /\ i' = k
  /\ IF legacyLoopRuns(k, Len(inputBuffer), chunkSize)
       THEN /\ \E fill \in UninitializedBytes :
                 calls' = Append(calls,
                            legacyPacket(inputBuffer, k, chunkSize, fill))
            /\ pc' = "awaitChunk"
       ELSE /\ calls' = Append(calls, <<INS_END>>)
            /\ pc' = "awaitEnd"
  /\ UNCHANGED <<error, result>>

\* exchange(h), up to the await of assertInit
legacyExchangeCalled(h) ==
  /\ hexData' = h
  /\ pc' = "awaitInit"
  /\ inputBuffer' = <<>>
  /\ i' = 0
  /\ calls' = <<>>
  /\ replies' = <<>>
  /\ error' = ""
  /\ result' = <<>>
  /\ UNCHANGED <<prevCRC, notes, decVars>>

\* a payload one byte longer than the largest chunk: the bytes 1, 2, ...
LongPayload == [k \in 1..(ChunkLimit + 1) |-> k]

\* the arguments given to an instance of chunk size size: the long payload
\* goes to the instances that send it in few chunks
LegacyExchangeArgs(size) ==
  ExchangeArgs \cup (IF size > MaxChunk THEN {BufferArg(LongPayload)} ELSE {})

\* exchange is called: up to the await of assertInit
legacyExchange ==
  /\ pc = "idle"
  /\ \E h \in LegacyExchangeArgs(chunkSize) : legacyExchangeCalled(h)
  /\ UNCHANGED instVars

\* assertInit returned, comm is there: normalisation and START
legacyAfterInit ==
  /\ pc = "awaitInit"
  /\ transport' = TRUE
  /\ LET nb == ledgerNormalize(hexData)
         sb == IF nb.ok THEN startCommBuffer(Len(nb.val)) ELSE nb
     IN  /\ inputBuffer' = IF nb.ok THEN nb.val ELSE <<>>
         /\ IF sb.ok
              THEN /\ calls' = <<<<INS_START>> \o sb.val>>
                   /\ pc' = "awaitStart"
                   /\ error' = ""
              ELSE /\ calls' = <<>>
                   /\ pc' = "rejected"
                   /\ error' = sb.err
  /\ UNCHANGED <<facadeVars, self, scrambleKeys, earlier, serialized, chunkSize, progressListener, hexData,
                 i, prevCRC,
                 replies, result, notes, decVars>>

\* comm_node.create_async() rejects: no comm, the exchange rejects
legacyInitFails ==
  /\ pc = "awaitInit"
  /\ ~transport
  /\ \E e \in TransportErrors : rejectWith(e)
  /\ UNCHANGED <<instVars, hexData, inputBuffer, prevCRC, replies, notes, decVars>>

\* START returned
legacyAfterStart ==
  /\ pc = "awaitStart"
  /\ replies' = Append(replies, Ok(<<>>))
  /\ IF legacyTempBuffer(chunkSize).ok
       THEN legacyLoop(0)
       ELSE rejectWith(legacyTempBuffer(chunkSize).err)
  /\ UNCHANGED <<instVars, hexData, inputBuffer, prevCRC, notes, decVars>>

\* the CONTINUE of chunk i returned; the loop of a chunk size 0 never ends
\* by itself and is followed here for MaxLen rounds
legacyAfterChunk ==
  /\ pc = "awaitChunk"
  /\ chunkSize # 0 \/ i < MaxLen
  /\ \E r \in ContinueReplies(inputBuffer, i, chunkSize, 0) :
       LET receivedCRC == firstFieldUInt16(decomposeResponse(r))
           crc         == ledgerCRC(inputBuffer, i, chunkSize)
       IN  /\ replies' = Append(replies, Ok(r))
           /\ IF ~receivedCRC.ok THEN rejectWith(receivedCRC.err)
              ELSE IF crcMismatch(crc, receivedCRC.val) THEN rejectWith(CRCError)
              ELSE legacyLoop(i + 1)
  /\ UNCHANGED <<instVars, hexData, inputBuffer, prevCRC, notes, decVars>>

NextLegacy ==
  \/ legacyConstruct
  \/ legacyExchange
  \/ legacyAfterInit
  \/ legacyInitFails
  \/ legacyAfterStart
  \/ legacyAfterChunk
  \/ exchangeAfterEnd
  \/ transportFails
  \/ exchangeSettled

SpecLegacy == InitNew /\ [][NextLegacy]_vars

----------------------------------------------------------------------------
(* The facade: getPubKey, signTX, signMSG, version and ping.  self names   *)
(* the class: "DposLedger" is the one of library.ts 20-255,                *)
(* "LegacyDposLedger" the one of library.ts 257-428 and                    *)
(* "ListenerDposLedger" the one of part_003 281-543, whose exchange is     *)
(* CommHandler's.  A string is the sequence of its code points, op is the  *)
(* operation in flight with its arguments, opResult what its promise       *)
(* settled with and exchangesMade the number of calls of exchange it made. *)

FacadeClasses == {"DposLedger", "LegacyDposLedger", "ListenerDposLedger"}

\* the value undefined, and an object given by the values of its fields
Undefined == [t |-> "undefined", v |-> <<>>, items |-> <<>>]
ObjectArg(fields) == [t |-> "object", v |-> <<>>, items |-> fields]

\* the UTF-8 bytes of one code point below 0x10000
utf8CodePoint(cp) ==
  IF cp < 128 THEN <<cp>>
  ELSE IF cp < 2048 THEN <<192 + (cp \div 64), 128 + (cp % 64)>>
  ELSE <<224 + (cp \div 4096), 128 + ((cp \div 64) % 64), 128 + (cp % 64)>>

\* new Buffer(str, 'utf8')
utf8Encode(str) == concat([k \in 1..Len(str) |-> utf8CodePoint(str[k])])

\* buf.toString('utf8') for sequences of one and two bytes; a byte that
\* starts or continues no such sequence becomes U+FFFD
RECURSIVE utf8Decode(_)
utf8Decode(b) ==
  IF b = <<>> THEN <<>>
  ELSE IF b[1] < 128 THEN <<b[1]>> \o utf8Decode(Tail(b))
  ELSE IF b[1] >= 194 /\ b[1] < 224 /\ Len(b) >= 2 /\ b[2] >= 128 /\ b[2] < 192
    THEN <<(b[1] - 192) * 64 + (b[2] - 128)>> \o utf8Decode(Tail(Tail(b)))
  ELSE <<65533>> \o utf8Decode(Tail(b))

\* the character of one hex digit, lower case
hexDigit(n) == IF n < 10 THEN 48 + n ELSE 87 + n

\* buf.toString('hex')
toHex(b) ==
  concat([k \in 1..Len(b) |-> <<hexDigit(b[k] \div 16), hexDigit(b[k] % 16)>>])

\* typeof what === 'string' ? new Buffer(what, 'utf8') : what
messageBuffer(what) == IF what.t = "string" THEN utf8Encode(what.v) ELSE what.v

\* the leading items of the array handed to exchange: this class alone
\* names the command class 'e0' there
classPrefix(class) ==
  IF class = "LegacyDposLedger" THEN <<StringArg(<<101, 48>>)>> ELSE <<>>

\* a command: '04', '05', ... as a string, 0x04, 0x05, ... as a number
command(class, n) ==
  IF class = "ListenerDposLedger" THEN NumberArg(n) ELSE StringArg(<<48, 48 + n>>)

\* the array getPubKey hands to exchange
getPubKeyArgs(class, pathBuf) ==
  ArrayArg(classPrefix(class)
    \o <<command(class, 4), NumberArg(Len(pathBuf) \div 4), BufferArg(pathBuf)>>)

\* sign: the array handed to exchange, or what writeUInt16BE throws
signArgs(class, signType, pathBuf, buff, hasRequesterPKey) ==
  LET buffLength == writeUInt16BE(Len(buff))
  IN  IF ~buffLength.ok THEN buffLength
      ELSE Ok(ArrayArg(classPrefix(class)
             \o << command(class, signType),
                   NumberArg(Len(pathBuf) \div 4),
                   BufferArg(pathBuf),
                   BufferArg(buffLength.val),
                   command(class, IF hasRequesterPKey THEN 1 ELSE 0),
                   BufferArg(buff) >>))

\* the string ping hands to exchange: 'e008' in one class, '08' in the others
pingArgs(class) ==
  StringArg((IF class = "LegacyDposLedger" THEN <<101, 48>> ELSE <<>>) \o <<48, 56>>)

\* what an operation hands to exchange, d being what derivePath returned
\* or threw; version and ping derive no path
facadeArgs(class, o, d) ==
  IF o.name = "version" THEN Ok(StringArg(<<48, 57>>))
  ELSE IF o.name = "ping" THEN Ok(pingArgs(class))
  ELSE IF ~d.ok THEN d
  ELSE IF o.name = "getPubKey" THEN Ok(getPubKeyArgs(class, d.val))
  ELSE IF o.name = "signTX"
    THEN signArgs(class, 5, d.val, o.what.v, o.hasRequesterPKey)
  ELSE signArgs(class, 6, d.val, messageBuffer(o.what), FALSE)

\* the first item of the destructured response
firstOf(fields) == IF Len(fields) >= 1 THEN BufferArg(fields[1]) ELSE Undefined

DidntReceivePONG == "Didnt receive PONG"

\* what an operation does with the fields its exchange resolved with
facadeResult(class, o, fields) ==
  IF o.name = "getPubKey"
    THEN IF class = "LegacyDposLedger"
           THEN IF Len(fields) < 1 THEN Throw("TypeError")
                ELSE Ok(StringArg(toHex(fields[1])))
           ELSE IF Len(fields) < 2 THEN Throw("TypeError")
                ELSE Ok(ObjectArg(<<StringArg(utf8Decode(fields[2])),
                                    StringArg(toHex(fields[1]))>>))
  ELSE IF o.name = "signTX" THEN Ok(firstOf(fields))
  ELSE IF o.name = "signMSG"
    THEN IF class = "ListenerDposLedger" THEN Ok(firstOf(fields))
         ELSE IF Len(fields) < 1 THEN Throw("TypeError")
         ELSE Ok(BufferArg(fields[1] \o messageBuffer(o.what)))
  ELSE IF Len(fields) < 1 THEN Throw("TypeError")
  ELSE IF o.name = "version" THEN Ok(StringArg(utf8Decode(fields[1])))
  ELSE IF utf8Decode(fields[1]) # PONG THEN Throw(DidntReceivePONG)
  ELSE Ok(Undefined)

\* an operation that resolves with undefined when its exchange rejected
facadeOutcome_swallowsRejection(class, o, rejected, err, fields) ==
  IF rejected THEN Ok(Undefined) ELSE facadeResult(class, o, fields)

\* await this.exchange(...) in an async method: a rejection of exchange is
\* the rejection of the operation
facadeOutcome(class, o, rejected, err, fields) ==
  IF rejected THEN Throw(err) ELSE facadeResult(class, o, fields)

\* this.exchange(h) of the class
classExchangeCalled(h) ==
  IF self = "DposLedger" THEN exchangeCalled(h)
  ELSE IF self = "LegacyDposLedger" THEN legacyExchangeCalled(h)
  ELSE commExchangeCalled(h)

\* an operation is called, up to its await of exchange; it rejects before
\* that when derivePath or writeUInt16BE throws
facadeCalled(o, d) ==
  /\ pc = "idle"
  /\ op = NoOp
  /\ op' = o
  /\ LET args == facadeArgs(self, o, d)
     IN  IF args.ok
           THEN /\ classExchangeCalled(args.val)
                /\ exchangesMade' = exchangesMade + 1
                /\ opResult' = Pending
           ELSE /\ pc' = "returned"
                /\ opResult' = args
                /\ UNCHANGED <<exchangesMade, hexData, inputBuffer, i, prevCRC,
                               calls, replies, error, result, notes, decVars>>
  /\ UNCHANGED <<instFields, ledgerAccount, given, derived>>

\* the messages signed: two bytes, 'h' and e acute as a string, a buffer too
\* long for the 2-byte length
SignedBuffers == {BufferArg(<<1, 170>>), BufferArg(OversizePayload)}
SignedMessages == SignedBuffers \cup {StringArg(<<104, 233>>)}

getPubKey ==
  \E d \in derivePathOutcomes(ledgerAccount) :
    facadeCalled([name |-> "getPubKey", what |-> BufferArg(<<>>),
                  hasRequesterPKey |-> FALSE], d)

signTX ==
  \E d \in derivePathOutcomes(ledgerAccount), buff \in SignedBuffers, flag \in BOOLEAN :
    facadeCalled([name |-> "signTX", what |-> buff, hasRequesterPKey |-> flag], d)

signMSG ==
  \E d \in derivePathOutcomes(ledgerAccount), what \in SignedMessages :
    facadeCalled([name |-> "signMSG", what |-> what, hasRequesterPKey |-> FALSE], d)

version ==
  /\ self = "DposLedger"
  /\ facadeCalled([name |-> "version", what |-> BufferArg(<<>>),
                   hasRequesterPKey |-> FALSE], Ok(<<>>))

ping ==
  /\ self # "ListenerDposLedger"
  /\ facadeCalled([name |-> "ping", what |-> BufferArg(<<>>),
                   hasRequesterPKey |-> FALSE], Ok(<<>>))

\* the exchange settled: the operation resumes after its await and settles
facadeSettled ==
  /\ pc \in {"resolved", "rejected"}
  /\ op # NoOp
  /\ opResult' = facadeOutcome(self, op, pc = "rejected", error, result)
  /\ pc' = "returned"
  /\ UNCHANGED <<instFields, ledgerAccount, given, derived, op, exchangesMade,
                 hexData, inputBuffer, i, prevCRC, calls, replies, error,
                 result, notes, decVars>>

\* the caller has the outcome; the instance is free for the next operation
facadeReturned ==
  /\ pc = "returned"
  /\ pc' = "idle"
  /\ op' = NoOp
  /\ opResult' = Pending
  /\ exchangesMade' = 0
  /\ hexData' = BufferArg(<<>>)
  /\ inputBuffer' = <<>>
  /\ i' = 0
  /\ prevCRC' = 0
  /\ calls' = <<>>
  /\ replies' = <<>>
  /\ error' = ""
  /\ result' = <<>>
  /\ notes' = <<>>
  /\ UNCHANGED <<instFields, ledgerAccount, given, derived, decVars>>

\* the chunk sizes of the instances behind the facade
FacadeChunkSizes == {ChunkLimit \div 15, ChunkLimit}

\* the accounts handed to the operations: the default one, one with every
\* setter used
FacadeAccounts ==
  {DefaultAccount, [account |-> 2, index |-> 2, coinIndex |-> MaxChild]}

InitFacade ==
  /\ self \in FacadeClasses
  /\ transport = (self # "LegacyDposLedger")
  /\ scrambleKeys = IF self = "LegacyDposLedger" THEN <<>> ELSE <<ScrambleKey>>
  /\ earlier = "none"
  /\ serialized = TRUE
  /\ chunkSize \in FacadeChunkSizes
  /\ progressListener \in {b \in BOOLEAN : b => self = "ListenerDposLedger"}
  /\ pc = "idle"
  /\ hexData = BufferArg(<<>>)
  /\ inputBuffer = <<>>
  /\ i = 0
  /\ prevCRC = 0
  /\ calls = <<>>
  /\ replies = <<>>
  /\ error = ""
  /\ result = <<>>
  /\ notes = <<>>
  /\ resBuf = <<>>
  /\ fieldsIn = <<>>
  /\ decoded = Ok(<<>>)
  /\ ledgerAccount \in FacadeAccounts
  /\ given = ledgerAccount
  /\ derived = NotDerived
  /\ op = NoOp
  /\ opResult = Pending
  /\ exchangesMade = 0

\* the steps of the exchange of each class
ledgerSteps ==
  /\ self = "DposLedger"
  /\ (exchangeAfterStart \/ exchangeAfterChunk \/ exchangeAfterEnd)

legacySteps ==
  /\ self = "LegacyDposLedger"
  /\ \/ legacyAfterInit
     \/ legacyInitFails
     \/ legacyAfterStart
     \/ legacyAfterChunk
     \/ exchangeAfterEnd

listenerSteps ==
  /\ self = "ListenerDposLedger"
  /\ (commAfterStart \/ commAfterChunk \/ commAfterEnd)

NextFacade ==
  \/ getPubKey
  \/ signTX
  \/ signMSG
  \/ version
  \/ ping
  \/ ledgerSteps
  \/ legacySteps
  \/ listenerSteps
  \/ transportFails
  \/ facadeSettled
  \/ facadeReturned

SpecFacade == InitFacade /\ [][NextFacade]_vars

----------------------------------------------------------------------------
(* The DposLedger of part_002 33-165: constructor(), chunks of 200 bytes,  *)
(* no START and no CRC check.  As in the constructor(chunkSize) variant,   *)
(* transport stands for this.comm and a call is the sequence of bytes      *)
(* handed to comm.exchange.                                                *)

\* chunkDataSize
FixedChunkSize == 200

\* hexData.length: the items of an array, the characters of a string, the
\* bytes of a buffer
hexDataLength(h) == IF h.t = "array" THEN Len(h.items) ELSE Len(h.v)

\* nChunks = Math.ceil(hexData.length / chunkDataSize)
fixedNChunks(h) == Ceil(hexDataLength(h), FixedChunkSize)

\* the head of the chunk loop with index k: tempBuffer.writeUInt8(dataSize, 1)
\* and the next 5a APDU, or 5b after the loop
fixedLoop(k) ==
  LET n == dataSize(Len(inputBuffer'), k, FixedChunkSize)
  IN  IF k < fixedNChunks(hexData)
        THEN IF writeUInt8(n).ok
               THEN /\ \E fill \in UninitializedBytes :
                         calls' = Append(calls,
                           legacyPacket(inputBuffer', k, FixedChunkSize, fill))
                    /\ pc' = "awaitChunk"
                    /\ i' = k
                    /\ UNCHANGED <<error, result>>
               ELSE /\ pc' = "rejected"
                    /\ error' = writeUInt8(n).err
                    /\ i' = k
                    /\ UNCHANGED <<calls, result>>
        ELSE /\ calls' = Append(calls, <<INS_END>>)
             /\ pc' = "awaitEnd"
             /\ i' = k
             /\ UNCHANGED <<error, result>>

\* payloads longer than one chunk: a buffer of 201 bytes, a hex string of
\* 101 bytes, the array of 'e0' and a buffer of 200 bytes
LongArgs ==
  { BufferArg([k \in 1..(FixedChunkSize + 1) |-> k]),
    StringArg([k \in 1..(FixedChunkSize + 2) |-> 97]),
    ArrayArg(<<StringArg(<<101, 48>>), BufferArg([k \in 1..FixedChunkSize |-> k])>>) }

FixedExchangeArgs ==
  {BufferArg(b) : b \in SeqsUpTo(PayloadBytes, MaxLen)} \cup ShapedArgs \cup LongArgs

\* exchange is called: up to the await of assertInit
fixedExchange ==
  /\ pc = "idle"
  /\ \E h \in FixedExchangeArgs : legacyExchangeCalled(h)
  /\ UNCHANGED instVars

\* assertInit returned: the argument is normalised and the loop entered
fixedAfterInit ==
  /\ pc = "awaitInit"
  /\ transport' = TRUE
  /\ LET nb == ledgerNormalize(hexData)
     IN  IF nb.ok
           THEN /\ inputBuffer' = nb.val
                /\ fixedLoop(0)
           ELSE /\ inputBuffer' = <<>>
                /\ pc' = "rejected"
                /\ error' = nb.err
                /\ UNCHANGED <<calls, i, result>>
  /\ UNCHANGED <<facadeVars, self, scrambleKeys, earlier, serialized, chunkSize,
                 progressListener, hexData, prevCRC, replies, notes, decVars>>

\* what comm.exchange resolves with for a 5a APDU: the answer is not looked at
FixedReplies == {<<170>>, <<>>}

\* the 5a APDU of chunk i returned
fixedAfterChunk ==
  /\ pc = "awaitChunk"
  /\ \E r \in FixedReplies : replies' = Append(replies, Ok(r))
  /\ inputBuffer' = inputBuffer
  /\ fixedLoop(i + 1)
  /\ UNCHANGED <<instVars, hexData, prevCRC, notes, decVars>>

InitFixed ==
  /\ self = "DposLedger200"
  /\ transport \in BOOLEAN
  /\ scrambleKeys = <<>>
  /\ earlier = "none"
  /\ serialized = TRUE
  /\ chunkSize = FixedChunkSize
  /\ progressListener = FALSE
  /\ pc = "idle"
  /\ hexData = BufferArg(<<>>)
  /\ inputBuffer = <<>>
  /\ i = 0
  /\ prevCRC = 0
  /\ calls = <<>>
  /\ replies = <<>>
  /\ error = ""
  /\ result = <<>>
  /\ notes = <<>>
  /\ resBuf = <<>>
  /\ fieldsIn = <<>>
  /\ decoded = Ok(<<>>)
  /\ NoFacade

NextFixed ==
  \/ fixedExchange
  \/ fixedAfterInit
  \/ legacyInitFails
  \/ fixedAfterChunk
  \/ exchangeAfterEnd
  \/ transportFails
  \/ exchangeSettled

SpecFixed == InitFixed /\ [][NextFixed]_vars

----------------------------------------------------------------------------
(* assertInit and init of the constructor(chunkSize) variant, with two     *)
(* callers of exchange on one instance.  Here transport is this.comm: 0    *)
(* for null, otherwise the number of the handle create_async resolved      *)
(* with; replies lists the handles created; a call is tagged with its      *)
(* caller and with the handle it was made on, a call of create_async       *)
(* having no data and the handle 0.                                        *)

\* the longest log of calls after which a caller still starts an exchange
MaxCallLog == 2

\* a call made by the exchange of caller c on what this.comm holds
CommCall(c, comm, data) == [by |-> c, comm |-> comm, data |-> data]

\* assertInit: this.comm === null
initNeeded(comm) == comm = 0

\* the exchange of caller c throws
lazyReject(c, err) ==
  /\ pc' = [pc EXCEPT ![c] = "rejected"]
  /\ error' = [error EXCEPT ![c] = err]
  /\ UNCHANGED <<calls, i, result>>

\* START of caller c on the handle comm, or what writeUInt16BE throws
lazyStart(c, comm, len) ==
  IF startCommBuffer(len).ok
    THEN /\ calls' = Append(calls,
              CommCall(c, comm, <<INS_START>> \o startCommBuffer(len).val))
         /\ pc' = [pc EXCEPT ![c] = "awaitStart"]
         /\ UNCHANGED error
    ELSE /\ pc' = [pc EXCEPT ![c] = "rejected"]
         /\ error' = [error EXCEPT ![c] = startCommBuffer(len).err]
         /\ UNCHANGED calls

\* caller c calls exchange with a Buffer: assertInit calls init, which calls
\* create_async, when this.comm is null; otherwise START is sent
lazyExchange(c) ==
  /\ pc[c] = "idle"
  /\ Len(calls) < MaxCallLog
  /\ serialized => \A d \in Callers : pc[d] = "idle"
  /\ \E b \in ConcurrentPayloads :
       /\ inputBuffer' = [inputBuffer EXCEPT ![c] = b]
       /\ IF initNeeded(transport)
            THEN /\ calls' = Append(calls, CommCall(c, 0, <<>>))
                 /\ pc' = [pc EXCEPT ![c] = "awaitInit"]
                 /\ UNCHANGED error
            ELSE lazyStart(c, transport, Len(b))
  /\ UNCHANGED <<instVars, hexData, i, prevCRC, replies, result, notes, decVars>>

\* create_async of caller c resolved with a new handle: init stores it in
\* this.comm and the exchange goes on to START
lazyCreated(c) ==
  /\ pc[c] = "awaitInit"
  /\ transport' = Len(replies) + 1
  /\ replies' = Append(replies, Ok(<<Len(replies) + 1>>))
  /\ lazyStart(c, Len(replies) + 1, Len(inputBuffer[c]))
  /\ UNCHANGED <<facadeVars, self, scrambleKeys, earlier, serialized, chunkSize,
                 progressListener, hexData, inputBuffer, i, prevCRC, result,
                 notes, decVars>>

\* create_async of caller c rejected: this.comm stays null
lazyCreateFails(c) ==
  /\ pc[c] = "awaitInit"
  /\ \E e \in TransportErrors : lazyReject(c, e)
  /\ UNCHANGED <<instVars, hexData, inputBuffer, prevCRC, replies, notes, decVars>>

\* the head of the chunk loop of caller c with index k
lazyLoop(c, k) ==
  /\ i' = [i EXCEPT ![c] = k]
  /\ IF legacyLoopRuns(k, Len(inputBuffer[c]), chunkSize)
       THEN /\ \E fill \in UninitializedBytes :
                 calls' = Append(calls, CommCall(c, transport,
                            legacyPacket(inputBuffer[c], k, chunkSize, fill)))
            /\ pc' = [pc EXCEPT ![c] = "awaitChunk"]
       ELSE /\ calls' = Append(calls, CommCall(c, transport, <<INS_END>>))
            /\ pc' = [pc EXCEPT ![c] = "awaitEnd"]
  /\ UNCHANGED <<error, result>>

\* the START of caller c returned
lazyAfterStart(c) ==
  /\ pc[c] = "awaitStart"
  /\ lazyLoop(c, 0)
  /\ UNCHANGED <<instVars, hexData, inputBuffer, prevCRC, replies, notes, decVars>>

\* the CONTINUE of chunk i of caller c returned
lazyAfterChunk(c) ==
  /\ pc[c] = "awaitChunk"
  /\ \E r \in ConcurrentReplies(inputBuffer[c], i[c], chunkSize) :
       LET receivedCRC == firstFieldUInt16(decomposeResponse(r))
           crc         == ledgerCRC(inputBuffer[c], i[c], chunkSize)
       IN  IF ~receivedCRC.ok THEN lazyReject(c, receivedCRC.err)
           ELSE IF crcMismatch(crc, receivedCRC.val) THEN lazyReject(c, CRCError)
           ELSE lazyLoop(c, i[c] + 1)
  /\ UNCHANGED <<instVars, hexData, inputBuffer, prevCRC, replies, notes, decVars>>

\* the END of caller c returned
lazyAfterEnd(c) ==
  /\ pc[c] = "awaitEnd"
  /\ LET dec == decomposeResponse(buildResponseFromLedger(<<<<170>>>>))
     IN  /\ pc' = [pc EXCEPT ![c] = "resolved"]
         /\ result' = [result EXCEPT ![c] = dec.val]
  /\ UNCHANGED <<instVars, hexData, inputBuffer, i, prevCRC, calls, replies, error,
                 notes, decVars>>

\* the pending comm.exchange of caller c rejects
lazySendFails(c) ==
  /\ pc[c] \in {"awaitStart", "awaitChunk", "awaitEnd"}
  /\ \E e \in TransportErrors : lazyReject(c, e)
  /\ UNCHANGED <<instVars, hexData, inputBuffer, prevCRC, replies, notes, decVars>>

\* the promise of caller c has settled; the log of calls starts afresh once
\* no exchange is under way
lazySettled(c) ==
  /\ pc[c] \in {"resolved", "rejected"}
  /\ pc' = [pc EXCEPT ![c] = "idle"]
  /\ inputBuffer' = [inputBuffer EXCEPT ![c] = <<>>]
  /\ i' = [i EXCEPT ![c] = 0]
  /\ error' = [error EXCEPT ![c] = ""]
  /\ result' = [result EXCEPT ![c] = <<>>]
  /\ calls' = IF \A d \in Callers \ {c} : pc[d] = "idle" THEN <<>> ELSE calls
  /\ UNCHANGED <<instVars, hexData, prevCRC, replies, notes, decVars>>

\* the chunk sizes of the instances with two callers
LazyChunkSizes == {1, ChunkLimit}

InitLazy ==
  /\ self = "LegacyDposLedger"
  /\ transport = 0
  /\ scrambleKeys = <<>>
  /\ earlier = "none"
  /\ serialized \in BOOLEAN
  /\ chunkSize \in LazyChunkSizes
  /\ progressListener = FALSE
  /\ pc = [c \in Callers |-> "idle"]
  /\ hexData = BufferArg(<<>>)
  /\ inputBuffer = [c \in Callers |-> <<>>]
  /\ i = [c \in Callers |-> 0]
  /\ prevCRC = 0
  /\ calls = <<>>
  /\ replies = <<>>
  /\ error = [c \in Callers |-> ""]
  /\ result = [c \in Callers |-> <<>>]
  /\ notes = <<>>
  /\ resBuf = <<>>
  /\ fieldsIn = <<>>
  /\ decoded = Ok(<<>>)
  /\ NoFacade

NextLazy ==
  \E c \in Callers :
    \/ lazyExchange(c)
    \/ lazyCreated(c)
    \/ lazyCreateFails(c)
    \/ lazyAfterStart(c)
    \/ lazyAfterChunk(c)
    \/ lazyAfterEnd(c)
    \/ lazySendFails(c)
    \/ lazySettled(c)

SpecLazy == InitLazy /\ [][NextLazy]_vars

----------------------------------------------------------------------------
(* A transport that damages a chunk on its way: the device receives the    *)
(* bytes of the CONTINUE with one bit inverted, keeps them and answers     *)
(* with the CRC of all the bytes it holds                                  *)

\* buf with bit b of its byte at pos (from 1) inverted
flipBitAt(buf, pos, b) == [buf EXCEPT ![pos] = FlipBit(buf[pos], b)]

\* the positions (from 1) of the bytes of chunk k in buf
chunkPositions(buf, k, size) == (k * size + 1)..Min(Len(buf), (k + 1) * size)

\* the CRCs the device computes for chunk k when one bit of that chunk
\* arrived inverted
FlippedCRCs(buf, k, size) ==
  { crc16(flipBitAt(SubSeq(buf, 1, Min(Len(buf), (k + 1) * size)), pos, b)) :
      pos \in chunkPositions(buf, k, size), b \in 0..7 }

\* the replies of that device to the CONTINUE of chunk k
FlippedReplies(buf, k, size) ==
  { buildResponseFromLedger(<<crcField(v)>>) : v \in FlippedCRCs(buf, k, size) }

\* the CONTINUE of chunk i returned from a device that received it with
\* one bit inverted
exchangeAfterFlippedChunk ==
  /\ pc = "awaitChunk"
  /\ \E r \in FlippedReplies(inputBuffer, i, chunkSize) : chunkReturned(r)
  /\ UNCHANGED <<instVars, hexData, inputBuffer, prevCRC, notes, decVars>>

NextFlip ==
  \/ Next
  \/ exchangeAfterFlippedChunk

SpecFlip == Init /\ [][NextFlip]_vars

----------------------------------------------------------------------------
(* decomposeResponse on its own: raw buffers, and buffers encoded from a   *)
(* list of fields as the unit tests' device does                           *)

\* byte values of the enumerated raw response buffers
RawBytes == {0, 1, 2, 255}

RawBuffers == SeqsUpTo(RawBytes, MaxBufLen)

\* field lists beyond the signed range of the count byte and of the length:
\* 128 empty fields, and one field of 32768 bytes
WideFieldLists ==
  { [k \in 1..(Int8Max + 1) |-> <<>>],
    <<[k \in 1..(Int16Max + 1) |-> 1]>> }

FieldLists ==
  SeqsUpTo(SeqsUpTo(PayloadBytes, MaxFieldLen), MaxFields) \cup WideFieldLists

\* decomposeResponse(resBuf) is called on a raw buffer
decompose ==
  /\ pc = "raw"
  /\ decoded' = decomposeResponse(resBuf)
  /\ pc' = "decoded"
  /\ UNCHANGED <<instVars, hexData, inputBuffer, i, prevCRC,
                 calls, replies, error, result, notes, resBuf, fieldsIn>>

\* the device encodes fieldsIn and decomposeResponse is called on the result
encodeAndDecompose ==
  /\ pc = "fields"
  /\ resBuf' = buildResponseFromLedger(fieldsIn)
  /\ decoded' = decomposeResponse(resBuf')
  /\ pc' = "roundTripped"
  /\ UNCHANGED <<instVars, hexData, inputBuffer, i, prevCRC,
                 calls, replies, error, result, notes, fieldsIn>>

InitDecompose ==
  /\ self = "DposLedger"
  /\ transport = TRUE
  /\ scrambleKeys = <<ScrambleKey>>
  /\ earlier = "none"
  /\ serialized = TRUE
  /\ chunkSize = ChunkLimit
  /\ progressListener = FALSE
  /\ hexData = BufferArg(<<>>)
  /\ inputBuffer = <<>>
  /\ i = 0
  /\ prevCRC = 0
  /\ calls = <<>>
  /\ replies = <<>>
  /\ error = ""
  /\ result = <<>>
  /\ notes = <<>>
  /\ decoded = Ok(<<>>)
  /\ NoFacade
  /\ \/ pc = "raw" /\ resBuf \in RawBuffers /\ fieldsIn = <<>>
     \/ pc = "fields" /\ fieldsIn \in FieldLists /\ resBuf = <<>>

NextDecompose ==
  \/ decompose
  \/ encodeAndDecompose

SpecDecompose == InitDecompose /\ [][NextDecompose]_vars

\* a new LedgerAccount
InitAccount ==
  /\ self = "LedgerAccount"
  /\ transport = FALSE
  /\ scrambleKeys = <<>>
  /\ earlier = "none"
  /\ serialized = TRUE
  /\ chunkSize = ChunkLimit
  /\ progressListener = FALSE
  /\ pc = "account"
  /\ hexData = BufferArg(<<>>)
  /\ inputBuffer = <<>>
  /\ i = 0
  /\ prevCRC = 0
  /\ calls = <<>>
  /\ replies = <<>>
  /\ error = ""
  /\ result = <<>>
  /\ notes = <<>>
  /\ resBuf = <<>>
  /\ fieldsIn = <<>>
  /\ decoded = Ok(<<>>)
  /\ NoFacade

NextAccount ==
  \/ index
  \/ account
  \/ coinIndex
  \/ accountDerivePath

SpecAccount == InitAccount /\ [][NextAccount]_vars

----------------------------------------------------------------------------
(* Properties of DposLedger.exchange, checked under Spec *)

\* the CONTINUE calls of the current exchange, in call order
ContinueCalls == SelectSeq(calls, LAMBDA c : c.ins = INS_CONTINUE)

\* ceil(len / size), as the least n with n * size >= len
ChunkCount(len, size) ==
  CHOOSE n \in 0..len : n * size >= len /\ (n = 0 \/ (n - 1) * size < len)

\* the payload prefix that ends with chunk j (from 1)
PrefixThrough(j) == SubSeq(inputBuffer, 1, Min(Len(inputBuffer), j * chunkSize))

\* chunk j (from 1) of the payload
ChunkAlone(j) ==
  SubSeq(inputBuffer, (j - 1) * chunkSize + 1, Min(Len(inputBuffer), j * chunkSize))

\* the 2-byte little-endian value at the head of the first field of a
\* reply, -1 when the reply holds no such field or the call failed
ReplyCRC(reply) ==
  IF reply.ok /\ Len(reply.val) >= 5 /\ reply.val[1] >= 1 /\ reply.val[1] <= Int8Max
     /\ reply.val[2] + 256 * reply.val[3] >= 2
    THEN reply.val[4] + 256 * reply.val[5]
    ELSE -1

\* the engine went past chunk j (from 1): a transport call follows its CONTINUE
WentPast(j) == Len(calls) >= j + 2

\* C1: a successful DposLedger.exchange has made exactly ceil(L / C) CONTINUE
\* calls, and their payloads joined in call order are the payload, byte for byte.
C1_ChunksRebuildPayload ==
  pc = "resolved" =>
    /\ Len(ContinueCalls) = ChunkCount(Len(inputBuffer), chunkSize)
    /\ concat([k \in 1..Len(ContinueCalls) |-> ContinueCalls[k].data]) = inputBuffer

\* a successful exchange of two chunks, the last one shorter than the first
C1_Witness ==
  /\ pc = "resolved"
  /\ chunkSize = 2
  /\ Len(inputBuffer) = 3
  /\ Len(ContinueCalls) = 2

\* C2: the transport calls of an exchange are a prefix of START, CONTINUE*, END:
\* START comes first and only first, each call is made only after every earlier
\* call returned, END comes last, after ceil(L / C) CONTINUE calls whose replies
\* carried the expected CRC, and a successful exchange has made ceil(L / C) + 2 calls.
C2_StartContinueEnd ==
  /\ \A k \in 1..Len(calls) :
       /\ (calls[k].ins = INS_START) <=> (k = 1)
       /\ calls[k].ins \in {INS_START, INS_CONTINUE, INS_END}
       /\ k > 1 => Len(replies) >= k - 1 /\ \A j \in 1..(k - 1) : replies[j].ok
       /\ calls[k].ins = INS_END =>
            /\ k = Len(calls)
            /\ k = ChunkCount(Len(inputBuffer), chunkSize) + 2
            /\ \A j \in 1..(k - 2) : ReplyCRC(replies[j + 1]) = crc16(PrefixThrough(j))
  /\ Len(replies) <= Len(calls)
  /\ pc = "resolved" =>
       /\ Len(calls) = ChunkCount(Len(inputBuffer), chunkSize) + 2
       /\ calls[Len(calls)].ins = INS_END

\* a successful exchange of START, two CONTINUE and END
C2_Witness ==
  /\ pc = "resolved"
  /\ Len(calls) = 4
  /\ calls[4].ins = INS_END

\* C3: DposLedger.exchange goes past chunk j only if the first field of the
\* device's reply to it holds, little-endian, the CRC16 of the whole payload
\* prefix that ends with chunk j.
C3_CumulativeCRCGates ==
  \A j \in 1..Len(ContinueCalls) :
    WentPast(j) => ReplyCRC(replies[j + 1]) = crc16(PrefixThrough(j))

\* the engine went past a second chunk whose own CRC differs from the
\* cumulative one
C3_Witness ==
  /\ WentPast(2)
  /\ Len(ContinueCalls) >= 2
  /\ crc16(ChunkAlone(2)) # crc16(PrefixThrough(2))

\* C4: when the CRC in the reply to a chunk differs from the local one, the
\* exchange has rejected with the CRC validation error and that CONTINUE is
\* the last transport call of the exchange.
C4_MismatchAborts ==
  \A j \in 1..Len(ContinueCalls) :
    (/\ Len(replies) >= j + 1
     /\ ReplyCRC(replies[j + 1]) >= 0
     /\ ReplyCRC(replies[j + 1]) # crc16(PrefixThrough(j)))
    => /\ pc = "rejected"
       /\ error = CRCError
       /\ Len(calls) = j + 1
       /\ calls[j + 1].ins = INS_CONTINUE

\* the reply to the second CONTINUE carried a wrong CRC
C4_Witness ==
  /\ pc = "rejected"
  /\ error = CRCError
  /\ Len(calls) = 3
  /\ ReplyCRC(replies[3]) # crc16(PrefixThrough(2))

\* C5 as stated: CommHandler.exchange goes past chunk j only if the first
\* field of the reply to it holds the CRC16 of the whole payload prefix that
\* ends with chunk j.
C5_CommCumulativeCRC ==
  \A j \in 1..Len(ContinueCalls) :
    WentPast(j) => ReplyCRC(replies[j + 1]) = crc16(PrefixThrough(j))

\* C5 amended: CommHandler.exchange goes past chunk j only if the first field
\* of the reply to it holds the CRC16 of chunk j alone.
C5_CommChunkCRCGates ==
  \A j \in 1..Len(ContinueCalls) :
    WentPast(j) => ReplyCRC(replies[j + 1]) = crc16(ChunkAlone(j))

\* CommHandler went past a second chunk whose own CRC differs from the
\* cumulative one
C5_Witness ==
  /\ WentPast(2)
  /\ Len(ContinueCalls) >= 2
  /\ prevCRC = crc16(ChunkAlone(2))
  /\ crc16(ChunkAlone(2)) # crc16(PrefixThrough(2))

\* C6: when a transport.send call of an exchange fails, the exchange has
\* rejected with that very error and the failed call is the last transport
\* call of the exchange: no retry, no further chunk, no END.
C6_TransportErrorAborts ==
  \A k \in 1..Len(replies) :
    ~replies[k].ok =>
      /\ pc = "rejected"
      /\ error = replies[k].err
      /\ k = Len(replies)
      /\ k = Len(calls)

\* the second CONTINUE failed in the transport
C6_Witness ==
  /\ pc = "rejected"
  /\ error \in TransportErrors
  /\ Len(calls) = 3
  /\ calls[3].ins = INS_CONTINUE
  /\ ~replies[3].ok

\* C7: every START sent carries two bytes that read, big-endian, as the byte
\* length of the payload; for a payload whose length does not fit two bytes
\* no START is sent at all, so no truncated length is ever announced.
C7_StartDeclaresLength ==
  /\ \A k \in 1..Len(calls) :
       calls[k].ins = INS_START =>
         /\ Len(calls[k].data) = 2
         /\ calls[k].data[1] \in 0..255
         /\ calls[k].data[2] \in 0..255
         /\ 256 * calls[k].data[1] + calls[k].data[2] = Len(inputBuffer)
  /\ Len(inputBuffer) > UInt16Max => calls = <<>> /\ pc = "rejected"

\* START is in flight for a payload of the longest enumerated length
C7_Witness ==
  /\ pc = "awaitStart"
  /\ Len(calls) = 1
  /\ Len(inputBuffer) = MaxLen
  /\ calls[1].data = <<0, MaxLen>>

----------------------------------------------------------------------------
(* Properties of decomposeResponse, checked under SpecDecompose *)

\* the sum of 2 + Len(list[k]) for k in lo..hi, halving the range
RECURSIVE FramedSize(_, _, _)
FramedSize(list, lo, hi) ==
  IF lo > hi THEN 0
  ELSE IF lo = hi THEN 2 + Len(list[lo])
  ELSE LET mid == (lo + hi) \div 2
       IN  FramedSize(list, lo, mid) + FramedSize(list, mid + 1, hi)

\* where the length prefix of field k (from 1) of the encoded fieldsIn lies
PrefixAt(k) == 2 + FramedSize(fieldsIn, 1, k - 1)

\* the unsigned 2-byte little-endian value at position pos of resBuf
LengthAt(pos) == resBuf[pos] + 256 * resBuf[pos + 1]

\* reading n more fields of buf from position pos, with unsigned lengths:
\* "fits" when they end with the buffer, "overrun" when a length prefix or
\* a field would lie past its end, "slack" when bytes are left over
RECURSIVE Framing(_, _, _)
Framing(buf, pos, n) ==
  IF n = 0 THEN (IF pos = Len(buf) + 1 THEN "fits" ELSE "slack")
  ELSE IF pos + 1 > Len(buf) THEN "overrun"
  ELSE IF pos + 1 + buf[pos] + 256 * buf[pos + 1] > Len(buf) THEN "overrun"
  ELSE Framing(buf, pos + 2 + buf[pos] + 256 * buf[pos + 1], n - 1)

\* the fields of a buffer that fits, read with unsigned lengths
RECURSIVE FramedFields(_, _, _)
FramedFields(buf, pos, n) ==
  IF n = 0 THEN <<>>
  ELSE <<SubSeq(buf, pos + 2, pos + 1 + buf[pos] + 256 * buf[pos + 1])>>
         \o FramedFields(buf, pos + 2 + buf[pos] + 256 * buf[pos + 1], n - 1)

\* C8 as stated: for a well-formed buffer decomposeResponse returns exactly
\* count buffers, in order, each of its declared length and holding the bytes
\* that follow its length prefix.
C8_WellFormedDecodes ==
  /\ (pc = "decoded" /\ Len(resBuf) >= 1 /\ Framing(resBuf, 2, resBuf[1]) = "fits")
       => decoded.ok /\ decoded.val = FramedFields(resBuf, 2, resBuf[1])
  /\ pc = "roundTripped"
       => /\ decoded.ok
          /\ Len(decoded.val) = resBuf[1]
          /\ \A k \in 1..Len(decoded.val) :
               /\ Len(decoded.val[k]) = LengthAt(PrefixAt(k))
               /\ decoded.val[k] =
                    SubSeq(resBuf, PrefixAt(k) + 2, PrefixAt(k) + 1 + LengthAt(PrefixAt(k)))

\* C9 as stated: decomposeResponse fails with an error for every buffer whose
\* count declares more fields than the bytes behind it hold, or in which a
\* declared field length reaches past the end of the buffer.
C9_OverrunFails ==
  (pc = "decoded" /\ Len(resBuf) >= 1 /\ Framing(resBuf, 2, resBuf[1]) = "overrun")
    => ~decoded.ok

\* C10 as stated: encoding a list of fields as a response buffer and passing
\* it to decomposeResponse yields the list, unchanged and in order.
C10_RoundTrip ==
  pc = "roundTripped" => decoded.ok /\ decoded.val = fieldsIn

----------------------------------------------------------------------------
(* Properties of construction and of whole exchanges, checked under SpecNew *)

\* C11: a constructor that threw was given a chunk size above 240 or below 1
\* or no transport, and threw one of the three configuration errors before any
\* transport call; an instance exists only with a chunk size in 1..240 and a
\* transport, and none of its exchanges ever fails with a configuration error.
C11_ConstructorGuards ==
  /\ pc = "threw" =>
       /\ error \in ConfigErrors
       /\ chunkSize > ChunkLimit \/ chunkSize < 1 \/ ~transport
       /\ calls = <<>>
  /\ pc \notin {"new", "threw"} =>
       /\ chunkSize \in 1..ChunkLimit
       /\ transport
       /\ error \notin ConfigErrors

\* a constructor given a transport and chunk size 0 threw
C11_Witness ==
  /\ pc = "threw"
  /\ transport
  /\ chunkSize = 0
  /\ error = ChunkTooSmall

----------------------------------------------------------------------------
(* Properties of the constructor(chunkSize) variant, checked under SpecLegacy *)

\* C12 as stated: the constructor taking only a chunk size rejects every chunk
\* size outside 1..240, so every instance has a chunk size in 1..240 and no
\* request is ever sent by an instance with another chunk size.
C12_LegacyRangeChecked ==
  /\ pc \notin {"new", "threw"} => chunkSize \in 1..ChunkLimit
  /\ calls # <<>> => chunkSize \in 1..ChunkLimit

----------------------------------------------------------------------------
(* Further properties of DposLedger.exchange, checked under Spec *)

\* C13: in a successful exchange with the chunk size equal to the payload
\* length (at least 1) there is one CONTINUE and it carries the whole payload;
\* with chunk size 1 there is one CONTINUE per payload byte, carrying that
\* byte, each answered with the CRC of the prefix up to that byte, and then
\* one END, the last call.
C13_BoundaryChunking ==
  pc = "resolved" =>
    /\ (Len(inputBuffer) >= 1 /\ chunkSize = Len(inputBuffer)) =>
         /\ Len(ContinueCalls) = 1
         /\ ContinueCalls[1].data = inputBuffer
    /\ chunkSize = 1 =>
         /\ Len(ContinueCalls) = Len(inputBuffer)
         /\ \A k \in 1..Len(ContinueCalls) :
              /\ ContinueCalls[k].data = <<inputBuffer[k]>>
              /\ ReplyCRC(replies[k + 1]) = crc16(SubSeq(inputBuffer, 1, k))
         /\ Cardinality({k \in 1..Len(calls) : calls[k].ins = INS_END}) = 1
         /\ calls[Len(calls)].ins = INS_END

\* a successful exchange of the longest payload, one byte per chunk
C13_Witness ==
  /\ pc = "resolved"
  /\ chunkSize = 1
  /\ Len(inputBuffer) = MaxLen
  /\ Len(calls) = MaxLen + 2

\* the sum of the lengths of the first n CONTINUE payloads
RECURSIVE SentBytes(_)
SentBytes(n) ==
  IF n = 0 THEN 0 ELSE SentBytes(n - 1) + Len(ContinueCalls[n].data)

\* C15: the k-th CONTINUE (from 1) carries the payload bytes from offset
\* (k - 1) * chunkSize on, between 1 and chunkSize of them and exactly
\* chunkSize unless it is the last chunk of the payload; in a successful
\* exchange the chunk lengths sum to the payload length.
C15_ChunkSizes ==
  /\ \A k \in 1..Len(ContinueCalls) :
       /\ Len(ContinueCalls[k].data) \in 1..chunkSize
       /\ (k - 1) * chunkSize < Len(inputBuffer)
       /\ (k - 1) * chunkSize + Len(ContinueCalls[k].data) <= Len(inputBuffer)
       /\ ContinueCalls[k].data =
            SubSeq(inputBuffer, (k - 1) * chunkSize + 1,
                   (k - 1) * chunkSize + Len(ContinueCalls[k].data))
       /\ k * chunkSize < Len(inputBuffer) => Len(ContinueCalls[k].data) = chunkSize
       /\ SentBytes(k) = Min(Len(inputBuffer), k * chunkSize)
  /\ pc = "resolved" => SentBytes(Len(ContinueCalls)) = Len(inputBuffer)

\* two chunks were sent, a full one and a shorter last one
C15_Witness ==
  /\ Len(ContinueCalls) = 2
  /\ chunkSize = 3
  /\ Len(ContinueCalls[1].data) = 3
  /\ Len(ContinueCalls[2].data) = 1

----------------------------------------------------------------------------
(* Further properties of CommHandler.exchange, checked under SpecComm *)

\* the notifications of an exchange that has had n chunks verified, and has
\* had END answered when ended is TRUE
ExpectedNotes(n, ended) ==
  <<[ev |-> "onStart", data |-> <<>>, sent |-> 0]>>
    \o [k \in 1..n |-> [ev |-> "onChunkProcessed", data |-> ChunkAlone(k), sent |-> k + 1]]
    \o (IF ended THEN <<[ev |-> "onEnd", data |-> <<>>, sent |-> n + 2]>> ELSE <<>>)

\* the k-th transport call of an exchange, whatever listener is set
ExpectedCall(k) ==
  IF k = 1
    THEN Send(INS_START, <<Len(inputBuffer) \div 256, Len(inputBuffer) % 256>>)
  ELSE IF k <= ChunkCount(Len(inputBuffer), chunkSize) + 1
    THEN Send(INS_CONTINUE, ChunkAlone(k - 1))
  ELSE Send(INS_END, <<>>)

\* C16: with a listener, the notifications are onStart before any transport
\* call, then one onChunkProcessed per verified chunk, carrying the chunk and
\* made after its CONTINUE and before the next call, then onEnd once END
\* has been answered; without a listener there is none; the transport calls
\* are the same with and without a listener.
C16_ProgressNotifications ==
  /\ ~progressListener => notes = <<>>
  /\ (progressListener /\ pc \in {"awaitStart", "awaitChunk", "awaitEnd"}) =>
       /\ notes = ExpectedNotes(i, FALSE)
       /\ \A k \in 1..i : ReplyCRC(replies[k + 1]) = crc16(ChunkAlone(k))
  /\ (progressListener /\ pc = "resolved") =>
       /\ notes = ExpectedNotes(ChunkCount(Len(inputBuffer), chunkSize), TRUE)
       /\ Len(replies) = Len(calls)
       /\ calls[Len(calls)].ins = INS_END
  /\ \A k \in 1..Len(calls) : calls[k] = ExpectedCall(k)

\* a successful exchange of two chunks has notified four times
C16_Witness ==
  /\ progressListener
  /\ pc = "resolved"
  /\ Len(notes) = 4
  /\ notes[2].data # notes[3].data

----------------------------------------------------------------------------
(* Properties of both classes, checked under SpecNew *)

\* an exchange of a zero-length payload is under way or has ended
EmptyPayloadRun ==
  /\ self \in {"DposLedger", "CommHandler"}
  /\ hexData \in {BufferArg(<<>>), ArrayArg(<<>>)}
  /\ pc \in {"awaitStart", "awaitChunk", "awaitEnd", "resolved", "rejected"}

\* C14: an exchange of a zero-length payload, in either class, has sent START
\* declaring length 0, sends no CONTINUE, sends END as its second and last
\* call, and resolves with the decoded reply to END.
C14_EmptyPayload ==
  EmptyPayloadRun =>
    /\ inputBuffer = <<>>
    /\ Len(calls) \in {1, 2}
    /\ calls[1] = Send(INS_START, <<0, 0>>)
    /\ ContinueCalls = <<>>
    /\ pc # "awaitChunk"
    /\ Len(calls) = 2 => calls[2] = Send(INS_END, <<>>) /\ replies[1].ok
    /\ pc = "awaitEnd" => Len(calls) = 2
    /\ pc = "resolved" =>
         /\ Len(calls) = 2
         /\ replies[2].ok
         /\ decomposeResponse(replies[2].val).ok
         /\ result = decomposeResponse(replies[2].val).val

\* a CommHandler resolved the exchange of an empty buffer with the one field
\* of the reply to END
C14_Witness ==
  /\ self = "CommHandler"
  /\ pc = "resolved"
  /\ hexData = BufferArg(<<>>)
  /\ Len(calls) = 2
  /\ result = <<<<170>>>>

----------------------------------------------------------------------------
(* Properties of an instance that is used again, checked under SpecReuse *)

\* the CRC an instance of either class expects in the reply to chunk k (from 1)
ExpectedCRC(k) ==
  IF self = "DposLedger" THEN crc16(PrefixThrough(k)) ELSE crc16(ChunkAlone(k))

\* C17: whatever way the earlier exchanges on the instance ended, the
\* instance still has its transport and its chunk size, the exchange under way
\* makes the calls a first exchange of its payload makes (START first), has
\* reached END only on the CRC its class expects for each chunk, and a CommHandler
\* tracks as previous CRC 0 before the first chunk and the CRC of the chunk
\* verified last after it.
C17_NoStateSurvives ==
  /\ transport
  /\ chunkSize \in 1..ChunkLimit
  /\ \A k \in 1..Len(calls) : calls[k] = ExpectedCall(k)
  /\ pc = "idle" => calls = <<>> /\ replies = <<>> /\ i = 0 /\ error = ""
  /\ pc \in {"awaitStart", "awaitChunk", "awaitEnd", "resolved"} =>
       /\ Len(calls) = i + (IF pc = "awaitStart" THEN 1 ELSE 2)
       /\ self = "CommHandler" =>
            prevCRC = (IF i = 0 THEN 0 ELSE crc16(ChunkAlone(i)))
  /\ pc = "awaitEnd" => \A k \in 1..i : ReplyCRC(replies[k + 1]) = ExpectedCRC(k)

\* after an exchange that failed on a CRC mismatch, a CommHandler is in the
\* second chunk of the next exchange
C17_Witness ==
  /\ earlier = "CRC mismatch"
  /\ self = "CommHandler"
  /\ pc = "awaitChunk"
  /\ i = 1
  /\ prevCRC = crc16(ChunkAlone(1))

----------------------------------------------------------------------------
(* Properties of concurrent callers, checked under SpecConcurrent *)

\* the calls the exchange of caller c has made, in order
CallsOf(c) == SelectSeq(calls, LAMBDA s : s.by = c)

\* a call of one caller lies between two calls of the other
Interleaved ==
  \E j, k, l \in 1..Len(calls) :
    j < k /\ k < l /\ calls[j].by = calls[l].by /\ calls[k].by # calls[j].by

\* C18: the engine never refuses or holds back a call because another
\* exchange is in flight: an exchange fails only on a transport error, a CRC
\* error or a Buffer error, and every exchange in flight has sent START and
\* its chunks up to the current one, whatever the other caller does; when the
\* callers are serialized the calls of the two exchanges never interleave.
C18_NoSerialization ==
  /\ \A c \in Callers :
       /\ pc[c] = "rejected" =>
            error[c] \in TransportErrors \cup {CRCError, "RangeError", "TypeError"}
       /\ InFlight(c) =>
            /\ Len(CallsOf(c)) = i[c] + (IF pc[c] = "awaitStart" THEN 1 ELSE 2)
            /\ CallsOf(c)[1].ins = INS_START
            /\ CallsOf(c)[Len(CallsOf(c))].ins =
                 (IF pc[c] = "awaitStart" THEN INS_START
                  ELSE IF pc[c] = "awaitChunk" THEN INS_CONTINUE ELSE INS_END)
  /\ serialized => ~Interleaved

\* without serialization, the START of one exchange reached the transport
\* between the START and the END of the other
C18_Witness ==
  /\ ~serialized
  /\ \E j, k, l \in 1..Len(calls) :
       /\ j < k /\ k < l
       /\ calls[j].ins = INS_START
       /\ calls[k].ins = INS_START
       /\ calls[l].ins = INS_END
       /\ calls[j].by = calls[l].by
       /\ calls[k].by # calls[j].by

----------------------------------------------------------------------------
(* Properties of DposLedger.exchange on a damaging transport, checked      *)
(* under SpecFlip                                                          *)

\* the reply to chunk j (from 1) is the CRC of the payload through chunk j
\* with one bit of chunk j inverted
FlippedAt(j) ==
  /\ j >= 1
  /\ Len(replies) = j + 1
  /\ ReplyCRC(replies[j + 1]) \in FlippedCRCs(inputBuffer, j - 1, chunkSize)

\* C19: when the device computed the CRC of a chunk over bytes that differ in
\* exactly one bit from what DposLedger.exchange sent, the exchange rejects
\* with the CRC validation error on the reply to that chunk: in every state
\* whose latest reply is such a CRC, the exchange has rejected with that
\* error, the CONTINUE of that chunk is the last call made, and END was not
\* sent.
C19_BitFlipDetected ==
  FlippedAt(Len(replies) - 1) =>
    /\ pc = "rejected"
    /\ error = CRCError
    /\ Len(calls) = Len(replies)
    /\ calls[Len(calls)].ins = INS_CONTINUE
    /\ \A k \in 1..Len(calls) : calls[k].ins # INS_END

\* a bit of the second chunk was inverted, after the first chunk was
\* acknowledged: the exchange rejected there
C19_Witness ==
  /\ chunkSize = 2
  /\ Len(inputBuffer) = 4
  /\ FlippedAt(2)
  /\ ReplyCRC(replies[2]) = crc16(PrefixThrough(1))
  /\ pc = "rejected"
  /\ error = CRCError

----------------------------------------------------------------------------
(* Properties of the argument of DposLedger.exchange, checked under Spec *)

\* the character codes of the hex digits 0..9, a..f and A..F, by value
LowerDigits == <<48, 49, 50, 51, 52, 53, 54, 55, 56, 57, 97, 98, 99, 100, 101, 102>>
UpperDigits == <<48, 49, 50, 51, 52, 53, 54, 55, 56, 57, 65, 66, 67, 68, 69, 70>>

\* the value of the hex digit with character code ch
DigitValue(ch) ==
  CHOOSE d \in 0..15 : LowerDigits[d + 1] = ch \/ UpperDigits[d + 1] = ch

\* the bytes a hex string stands for, pair by pair from the left
RECURSIVE HexBytes(_)
HexBytes(str) ==
  IF Len(str) < 2 THEN <<>>
  ELSE <<16 * DigitValue(str[1]) + DigitValue(str[2])>> \o HexBytes(SubSeq(str, 3, Len(str)))

\* the bytes of one item: a string as hex, a number as one byte, a buffer as is
ItemBytes(item) ==
  IF item.t = "string" THEN HexBytes(item.v)
  ELSE IF item.t = "number" THEN <<item.v[1]>>
  ELSE item.v

\* the bytes of the first n items, joined in list order
RECURSIVE JoinedItems(_, _)
JoinedItems(items, n) ==
  IF n = 0 THEN <<>> ELSE JoinedItems(items, n - 1) \o ItemBytes(items[n])

\* the payload an argument stands for
ExpectedPayload(h) ==
  IF h.t = "array" THEN JoinedItems(h.items, Len(h.items)) ELSE ItemBytes(h)

\* every number item of the argument is a byte value
NumbersInRange(h) ==
  \A k \in 1..Len(h.items) :
    h.items[k].t = "number" => h.items[k].v[1] \in 0..UInt8Max

\* C20: the payload of an exchange is the concatenation, in list order, of
\* the items' bytes (a string decoded as hex, a number in 0..255 as the one
\* byte of that value, a buffer unchanged; a lone string decoded as hex, a
\* lone buffer as is): START announces its length, and on success the data
\* of the CONTINUE calls joined in call order are those bytes.
C20_InputNormalized ==
  (pc # "idle" /\ NumbersInRange(hexData)) =>
    /\ inputBuffer = ExpectedPayload(hexData)
    /\ calls # <<>> =>
         /\ calls[1].ins = INS_START
         /\ calls[1].data = <<Len(ExpectedPayload(hexData)) \div 256,
                              Len(ExpectedPayload(hexData)) % 256>>
    /\ pc = "resolved" =>
         concat([k \in 1..Len(ContinueCalls) |-> ContinueCalls[k].data])
           = ExpectedPayload(hexData)

\* the array ['aa', 1, <aa 01>] was sent as aa 01 aa 01 in two chunks
C20_Witness ==
  /\ hexData = ArrayArg(<<StringArg(<<97, 97>>), NumberArg(1), BufferArg(<<170, 1>>)>>)
  /\ pc = "resolved"
  /\ chunkSize = 3
  /\ Len(ContinueCalls) = 2
  /\ ContinueCalls[1].data = <<170, 1, 170>>
  /\ ContinueCalls[2].data = <<1>>

----------------------------------------------------------------------------
(* Properties of the echoed previous CRC, checked under SpecComm *)

\* the 2-byte little-endian value at the head of the second field of a
\* reply, -1 when the reply holds no such field or the call failed
ReplyPrevCRC(reply) ==
  IF reply.ok /\ Len(reply.val) >= 4 /\ reply.val[1] >= 2 /\ reply.val[1] <= Int8Max
    THEN LET at == 4 + reply.val[2] + 256 * reply.val[3]
         IN  IF Len(reply.val) >= at + 3
                /\ reply.val[at] + 256 * reply.val[at + 1] >= 2
               THEN reply.val[at + 2] + 256 * reply.val[at + 3]
               ELSE -1
    ELSE -1

\* the CRC the engine computed for the chunk before chunk j (from 1): 0 for
\* the first chunk
TrackedPrevCRC(j) == IF j = 1 THEN 0 ELSE crc16(ChunkAlone(j - 1))

\* the reply to chunk j (from 1) has arrived and its second field differs
\* from the CRC of the chunk before
PrevCRCDiffers(j) ==
  /\ Len(replies) >= j + 1
  /\ ReplyPrevCRC(replies[j + 1]) # -1
  /\ ReplyPrevCRC(replies[j + 1]) # TrackedPrevCRC(j)

\* the exchange stopped at the reply to chunk j: its CONTINUE is the last call
StoppedAt(j) ==
  /\ pc = "rejected"
  /\ Len(replies) = j + 1
  /\ Len(calls) = j + 1
  /\ calls[j + 1].ins = INS_CONTINUE

\* C21 as stated: whenever the second field of the reply to chunk j differs
\* from the CRC computed for chunk j - 1 (0 for the first chunk),
\* CommHandler.exchange rejects with 'Prev CRC is not valid' and sends
\* neither a further CONTINUE nor END.
C21_PrevCRCAlwaysNamed ==
  \A j \in 1..Len(ContinueCalls) :
    PrevCRCDiffers(j) => StoppedAt(j) /\ error = PrevCRCError

\* C21 amended: CommHandler.exchange goes past chunk j only if the second
\* field of the reply echoes the CRC computed for chunk j - 1 (0 for the
\* first chunk); when it differs the exchange stops at that reply, sending
\* neither a further CONTINUE nor END, and rejects with 'Prev CRC is not
\* valid' if the first field held the CRC of chunk j, with the CRC
\* validation error otherwise.
C21_PrevCRCGates ==
  \A j \in 1..Len(ContinueCalls) :
    /\ WentPast(j) => ReplyPrevCRC(replies[j + 1]) = TrackedPrevCRC(j)
    /\ PrevCRCDiffers(j) =>
         /\ StoppedAt(j)
         /\ error = IF ReplyCRC(replies[j + 1]) = crc16(ChunkAlone(j))
                      THEN PrevCRCError ELSE CRCError

\* the reply to the second chunk held that chunk's CRC and a wrong previous
\* CRC: the exchange rejected there with 'Prev CRC is not valid'
C21_Witness ==
  /\ PrevCRCDiffers(2)
  /\ ReplyCRC(replies[3]) = crc16(ChunkAlone(2))
  /\ TrackedPrevCRC(2) # 0
  /\ StoppedAt(2)
  /\ error = PrevCRCError

----------------------------------------------------------------------------
(* Properties of the scramble key, checked under SpecNew *)

\* C22: the scramble key is set on the transport exactly once per instance,
\* by the constructor and only when it returns: before construction, and
\* after a constructor that threw on the chunk size or on the transport, no
\* key was set and no transport.send was made; on a constructed instance
\* the key was set once, whatever exchanges have run since.
C22_ScrambleKeyOnce ==
  /\ pc \in {"new", "threw"} => scrambleKeys = <<>> /\ calls = <<>>
  /\ pc \notin {"new", "threw"} =>
       /\ scrambleKeys = <<ScrambleKey>>
       /\ constructorError(transport, chunkSize) = ""

\* an exchange on a constructed instance has made three transport calls and
\* the key is still set once
C22_Witness ==
  /\ self \in {"DposLedger", "CommHandler"}
  /\ Len(calls) = 3
  /\ pc = "resolved"
  /\ scrambleKeys = <<ScrambleKey>>

----------------------------------------------------------------------------
(* Properties of LedgerAccount, checked under SpecAccount *)

\* C27: the setters index, account and coinIndex accept exactly the
\* non-negative integers: a call with anything else throws ('must be an
\* integer', or 'must be greater than zero' for a negative integer) and
\* leaves the stored values as they were, so no stored value is ever
\* negative and no setter has accepted a negative value.
C27_SettersRejectNegatives ==
  /\ ledgerAccount.index >= 0
  /\ ledgerAccount.account >= 0
  /\ ledgerAccount.coinIndex >= 0
  /\ given = ledgerAccount
  /\ error \in {"", IndexNotInteger, AccountNotInteger, CoinIndexNotInteger,
                "must be greater than zero"}

\* the four bytes, highest first, of child index v with the hardened bit set
HardenedWord(v) ==
  <<128 + v \div 16777216, (v \div 65536) % 256, (v \div 256) % 256, v % 256>>

\* the path of the values a: 41' / coinIndex' / 0' / account' / index'
ExpectedPath(a) ==
  HardenedWord(41) \o HardenedWord(a.coinIndex) \o HardenedWord(0)
    \o HardenedWord(a.account) \o HardenedWord(a.index)

\* the values a are child indexes: 0 .. 0x7fffffff
ChildIndexes(a) ==
  \A f \in {"index", "account", "coinIndex"} : a[f] >= 0 /\ a[f] <= MaxChild

----------------------------------------------------------------------------
(* Properties of the facade, checked under SpecFacade *)

\* an operation returned to its caller
Returned == pc = "returned" /\ op # NoOp

\* the data an operation was asked to sign is too long for a 2-byte length
DataTooLong ==
  /\ op.name \in {"signTX", "signMSG"}
  /\ Len(messageBuffer(op.what)) > UInt16Max

ComponentBytes(h) == [k \in 1..Len(h.items) |-> ledgerItem(h.items[k]).val]

\* a sign operation that has handed its components to exchange
SignCalled == op.name \in {"signTX", "signMSG"} /\ exchangesMade = 1

\* the components the statement lists, for the operation in flight
ExpectedSignComponents ==
  LET data == messageBuffer(op.what)
  IN  << <<224>>,
         <<IF op.name = "signTX" THEN 5 ELSE 6>>,
         <<5>>,
         ExpectedPath(ledgerAccount),
         <<Len(data) \div 256, Len(data) % 256>>,
         <<IF op.hasRequesterPKey THEN 1 ELSE 0>>,
         data >>

\* C24 as stated: signTX and signMSG hand exchange the components e0, sign
\* type (05 or 06), number of path components, path, 2-byte big-endian
\* length of the data, requester flag (01 or 00), data, in this order
C24_SignComponents ==
  SignCalled => /\ hexData.t = "array"
                /\ ComponentBytes(hexData) = ExpectedSignComponents

\* signMSG returned after its exchange resolved with at least one field
SignMSGResolved ==
  /\ Returned
  /\ op.name = "signMSG"
  /\ exchangesMade = 1
  /\ error = ""
  /\ Len(result) >= 1

\* C25 as stated: signMSG resolves with the signature field of the device
\* immediately followed by the bytes of the message, the UTF-8 bytes of a
\* message given as a string
C25_NonDetachedSignature ==
  SignMSGResolved =>
    opResult = Ok(BufferArg(result[1] \o messageBuffer(op.what)))

\* ping returned after its exchange settled
PingReturned == Returned /\ op.name = "ping" /\ exchangesMade = 1

\* the exchange resolved and the first field of the response is 'PONG'
PongReceived == error = "" /\ Len(result) >= 1 /\ result[1] = PONG

\* C26 as stated: ping resolves exactly when its exchange succeeded with
\* 'PONG' as the first field; for every other response of a successful
\* exchange, one with zero fields included, it rejects with
\* 'Didnt receive PONG'
C26_PingOnlyOnPONG ==
  PingReturned =>
    /\ opResult.ok <=> PongReceived
    /\ error = "" /\ ~PongReceived => opResult = Throw(DidntReceivePONG)

----------------------------------------------------------------------------
(* Properties of the framing of the constructor(chunkSize) variant, checked *)
(* under SpecLegacy                                                         *)

\* an exchange of an instance whose chunk size is in the documented range
LegacyExchanging ==
  /\ self = "LegacyDposLedger"
  /\ chunkSize \in 1..ChunkLimit
  /\ calls # <<>>

\* the bytes of the payload that belong to chunk k
ChunkOf(buf, k, size) ==
  SubSeq(buf, k * size + 1, Min(Len(buf), (k + 1) * size))

\* the j-th APDU is the CONTINUE of chunk j - 2
FramedChunk(j) ==
  LET packet == calls[j]
      chunk  == ChunkOf(inputBuffer, j - 2, chunkSize)
  IN  /\ Len(packet) >= 3
      /\ packet[1] = 90
      /\ packet[2] = Len(packet) - 2
      /\ packet[2] \in 1..ChunkLimit
      /\ SubSeq(packet, 3, Len(packet)) = chunk

----------------------------------------------------------------------------
(* Properties of the variant with chunks of 200 bytes, checked under       *)
(* SpecFixed                                                               *)

\* the 5a APDUs sent so far, in call order
DataPackets == SelectSeq(calls, LAMBDA c : c[1] = 90)

\* the data bytes of the 5a APDUs, joined
DataSent ==
  concat([k \in 1..Len(DataPackets) |->
            SubSeq(DataPackets[k], 3, Len(DataPackets[k]))])

\* the exchange stopped on its own: it sent data, no call to the device
\* failed, and it rejected before sending 5b
StoppedBeforeEnd ==
  /\ pc = "rejected"
  /\ calls # <<>>
  /\ \A k \in 1..Len(replies) : replies[k].ok
  /\ \A k \in 1..Len(calls) : calls[k] # <<91>>

\* C30 as stated: for a buffer, a hex string and a mixed array alike, the
\* data of the 5a APDUs joined in call order is the normalized payload,
\* there are ceil(byte length / 200) of them, and one 5b follows them
C30_FixedFraming ==
  /\ pc \in {"awaitEnd", "resolved"} =>
       /\ DataSent = ExpectedPayload(hexData)
       /\ Len(DataPackets) = Ceil(Len(ExpectedPayload(hexData)), 200)
       /\ Len(calls) = Len(DataPackets) + 1
       /\ calls[Len(calls)] = <<91>>
  /\ ~StoppedBeforeEnd

----------------------------------------------------------------------------
(* Properties of the lazily created comm, checked under SpecLazy *)

\* the calls made on a handle, those of create_async left out
HandleCalls == SelectSeq(calls, LAMBDA c : c.data # <<>>)

\* C31 as stated: over any sequence of exchange calls, those started before
\* the first initialisation has completed included, init creates one
\* transport at most and every exchange makes its calls on that handle
C31_TransportCreatedOnce ==
  /\ Len(replies) <= 1
  /\ \A k \in 1..Len(HandleCalls) : HandleCalls[k].comm = 1

----------------------------------------------------------------------------
(* Properties of the notifications of a failing exchange, checked under    *)
(* SpecComm                                                                *)

\* onEnd has been notified
EndNotified == \E k \in 1..Len(notes) : notes[k].ev = "onEnd"

\* the onChunkProcessed notifications, in the order they were made
ChunkNotes == SelectSeq(notes, LAMBDA n : n.ev = "onChunkProcessed")

\* the last transport call of the exchange was ins
LastCallIs(ins) == calls # <<>> /\ calls[Len(calls)].ins = ins

\* an exchange with a listener failed at START or in the chunk loop
FailedBeforeEnd ==
  /\ progressListener
  /\ pc = "rejected"
  /\ ~LastCallIs(INS_END)

\* the chunks verified before the failure: every CONTINUE but the last,
\* whose reply failed
VerifiedChunks ==
  Len(ContinueCalls) - (IF LastCallIs(INS_CONTINUE) THEN 1 ELSE 0)

\* the data of the first n chunk notifications, joined
NotifiedBytes(n) == concat([k \in 1..n |-> ChunkNotes[k].data])

\* C32: in an exchange that fails at START or in the chunk loop, onEnd is not
\* notified, onChunkProcessed has been notified once for each chunk verified
\* before the failure, in order, and not for the chunk whose reply failed;
\* the chunks notified join to a prefix of the payload
C32_NotificationsOfFailure ==
  FailedBeforeEnd =>
    /\ ~EndNotified
    /\ Len(ChunkNotes) = VerifiedChunks
    /\ \A k \in 1..Len(ChunkNotes) : ChunkNotes[k].data = ChunkAlone(k)
    /\ Len(NotifiedBytes(Len(ChunkNotes))) <= Len(inputBuffer)
    /\ NotifiedBytes(Len(ChunkNotes))
         = SubSeq(inputBuffer, 1, Len(NotifiedBytes(Len(ChunkNotes))))
    /\ calls # <<>> =>
         notes = <<[ev |-> "onStart", data |-> <<>>, sent |-> 0]>>
                   \o [k \in 1..Len(ChunkNotes) |->
                         [ev |-> "onChunkProcessed", data |-> ChunkAlone(k),
                          sent |-> k + 1]]

\* the second chunk's reply named a wrong previous CRC: one chunk was
\* notified
C32_Witness ==
  /\ FailedBeforeEnd
  /\ error = PrevCRCError
  /\ Len(ContinueCalls) = 2
  /\ Len(ChunkNotes) = 1

\* END has been answered by the device
EndAnswered ==
  /\ LastCallIs(INS_END)
  /\ Len(replies) = Len(calls)
  /\ replies[Len(replies)].ok

\* C33 as stated: whenever onEnd has been notified the exchange completes
\* successfully
C33_OnEndMeansSuccess == EndNotified => pc = "resolved"

\* C33: with a listener, onEnd is notified, once and last, exactly when the
\* device has answered END, before the answer is decoded: every exchange
\* that resolves has notified it, and an exchange rejects after onEnd only
\* for an END response that cannot be decoded
C33_OnEndAfterEnd ==
  progressListener =>
    /\ EndNotified <=> EndAnswered
    /\ pc = "resolved" => EndNotified
    /\ EndNotified =>
         /\ notes[Len(notes)].ev = "onEnd"
         /\ \A k \in 1..(Len(notes) - 1) : notes[k].ev # "onEnd"
         /\ pc \in {"resolved", "rejected"}
         /\ pc = "rejected" =>
              error \notin TransportErrors \cup {CRCError, PrevCRCError}

\* onEnd was notified and the exchange rejected
C33_Witness ==
  /\ progressListener
  /\ EndNotified
  /\ pc = "rejected"

----------------------------------------------------------------------------
(* Properties of replies that lack a field, checked under SpecNew *)

\* the length of the field whose 2-byte length starts at offset o (from 0)
\* of a raw reply, 0 when the reply ends before
RawFieldLen(raw, o) ==
  IF Len(raw) >= o + 2 THEN raw[o + 1] + 256 * raw[o + 2] ELSE 0

\* a raw reply has fewer than needed fields of at least 2 bytes
LacksFields(raw, needed) ==
  \/ raw = <<>>
  \/ raw[1] < needed
  \/ RawFieldLen(raw, 1) < 2
  \/ needed = 2 /\ RawFieldLen(raw, 3 + RawFieldLen(raw, 1)) < 2

\* the fields the engine of the class reads from a CONTINUE reply
FieldsNeeded == IF self = "CommHandler" THEN 2 ELSE 1

\* C34: a CONTINUE reply without the fields the engine reads (no field, a
\* CRC field of less than 2 bytes, for CommHandler also a single field)
\* makes the exchange fail at that reply: no call follows it, END included
C34_MissingFieldFails ==
  self \in {"DposLedger", "CommHandler"} =>
    \A k \in 1..Len(replies) :
      (/\ k <= Len(calls)
       /\ calls[k].ins = INS_CONTINUE
       /\ replies[k].ok
       /\ LacksFields(replies[k].val, FieldsNeeded))
        => /\ pc = "rejected"
           /\ Len(calls) = k
           /\ error \in {"TypeError", "RangeError", CRCError}

\* a CommHandler was answered the right CRC in a single field and rejected
\* with a TypeError
C34_Witness ==
  /\ self = "CommHandler"
  /\ pc = "rejected"
  /\ error = "TypeError"
  /\ Len(replies) = 2
  /\ replies[2].ok
  /\ replies[2].val[1] = 1
  /\ ReplyCRC(replies[2]) = crc16(ChunkAlone(1))

----------------------------------------------------------------------------
(* Properties of number items, checked under SpecComm *)

\* C35: an exchange whose argument holds a number outside 0..255 fails
\* during normalisation: it is rejected and no START is sent, so the number
\* is never reduced modulo 256 onto the wire
C35_OutOfRangeRejected ==
  (/\ pc # "idle"
   /\ hexData.t \in {"array", "number"}
   /\ ~(hexData.t = "number" => hexData.v[1] \in 0..UInt8Max)
        \/ ~NumbersInRange(hexData))
    => (pc = "rejected" /\ calls = <<>>)

----------------------------------------------------------------------------
(* What exchange leaves alone, checked under SpecReuse *)

\* the exchange under way was given a buffer
BufferGiven == pc # "idle" /\ hexData.t = "buffer"

\* C36: no step of an exchange, whether it goes on, resolves or rejects,
\* changes the chunk size or the transport of the instance, and from the call
\* to the settling the caller's buffer keeps its bytes and its length, which
\* are the payload the engine works on; the chunk size is therefore the same
\* for every chunk and for every exchange of the instance.
C36_ExchangeFrame ==
  /\ [](BufferGiven => inputBuffer = hexData.v)
  /\ [][/\ chunkSize' = chunkSize
        /\ transport' = transport
        /\ (pc # "idle" /\ pc' # "idle") =>
             (hexData' = hexData /\ inputBuffer' = inputBuffer)]_vars

\* after an exchange that failed, an exchange of a buffer of the greatest
\* length has resolved in chunks of one byte
C36_Witness ==
  /\ earlier \in {"transport error", "CRC mismatch", "malformed response"}
  /\ pc = "resolved"
  /\ hexData = BufferArg(inputBuffer)
  /\ Len(inputBuffer) = MaxLen
  /\ chunkSize = 1
  /\ transport

----------------------------------------------------------------------------
(* Termination of an exchange, checked under SpecLive *)

\* the exchange is suspended at a transport call
Awaiting == pc \in {"awaitStart", "awaitChunk", "awaitEnd"}

\* the promise of the exchange is resolved or rejected
Settled == pc \in {"resolved", "rejected"}

\* the most transport calls an exchange of the payload makes
MostCalls == ChunkCount(Len(inputBuffer), chunkSize) + 2

\* C37: when every transport call eventually returns, an exchange suspended
\* at a call eventually resolves or rejects, and it never makes more than
\* ceil(L / C) + 2 transport calls; while it is suspended nothing but the
\* return of the call it awaits changes anything: no further call is made
\* and the exchange does not settle, there being no timeout
C37_Termination ==
  /\ Awaiting ~> Settled
  /\ [](pc # "idle" => Len(calls) <= MostCalls)
  /\ [][Awaiting =>
          /\ Len(replies') = Len(replies) + 1
          /\ Len(calls') <= Len(calls) + 1]_vars
  /\ [](Awaiting => Len(calls) = Len(replies) + 1)

\* a payload of the greatest length has resolved in chunks of one byte with
\* exactly the most calls
C37_Witness ==
  /\ pc = "resolved"
  /\ chunkSize = 1
  /\ Len(inputBuffer) = MaxLen
  /\ Len(calls) = MostCalls
  /\ Len(replies) = Len(calls)

============================================================================
